---------------------------- MODULE Spec2Model ----------------------------
(***************************************************************************)
(* Model of the ARR attestation codec (packages/arr-core): the attestation *)
(* validator, the canonicalizer, the Ed25519 signing/verification engine   *)
(* and verifyAttestation.                                                  *)
(*                                                                         *)
(* Strings are sequences of characters (one-character strings; the token   *)
(* "KELVIN" stands for the single code point U+212A, "BACKTICK" for U+0060)*)
(* Byte buffers are                                                        *)
(* sequences of integers 0..255.  JavaScript values are tagged records     *)
(* [kind, val]; an object is the sequence of its own properties in the     *)
(* engine's property order.                                                *)
(***************************************************************************)
EXTENDS Integers, Sequences, FiniteSets, TLC

(***************************************************************************)
(* Characters and strings                                                  *)
(***************************************************************************)
Ascii ==
    <<" ", "!", "\"", "#", "$", "%", "&", "'", "(", ")", "*", "+", ",", "-", ".", "/",
      "0", "1", "2", "3", "4", "5", "6", "7", "8", "9", ":", ";", "<", "=", ">", "?",
      "@", "A", "B", "C", "D", "E", "F", "G", "H", "I", "J", "K", "L", "M", "N", "O",
      "P", "Q", "R", "S", "T", "U", "V", "W", "X", "Y", "Z", "[", "\\", "]", "^", "_",
      "BACKTICK", "a", "b", "c", "d", "e", "f", "g", "h", "i", "j", "k", "l", "m", "n", "o",
      "p", "q", "r", "s", "t", "u", "v", "w", "x", "y", "z", "{", "|", "}", "~">>

IndexOf(seq, c) ==
    IF \E i \in 1..Len(seq) : seq[i] = c
    THEN CHOOSE i \in 1..Len(seq) : seq[i] = c /\ \A j \in 1..(i - 1) : seq[j] # c
    ELSE 0

\* every character of the model
Chars == {Ascii[i] : i \in 1..Len(Ascii)} \cup {"KELVIN", "\n"}

\* UTF-16 code unit of each character
CodePointTable ==
    [c \in Chars |-> IF c = "KELVIN" THEN 8490
                     ELSE IF c = "\n" THEN 10
                     ELSE 31 + IndexOf(Ascii, c)]

CodePoint(c) == CodePointTable[c]

UpperLetters ==
    <<"A", "B", "C", "D", "E", "F", "G", "H", "I", "J", "K", "L", "M",
      "N", "O", "P", "Q", "R", "S", "T", "U", "V", "W", "X", "Y", "Z">>

LowerLetters ==
    <<"a", "b", "c", "d", "e", "f", "g", "h", "i", "j", "k", "l", "m",
      "n", "o", "p", "q", "r", "s", "t", "u", "v", "w", "x", "y", "z">>

Digits ==
    <<"0", "1", "2", "3", "4", "5", "6", "7", "8", "9">>

DigitSet == {Digits[i] : i \in 1..Len(Digits)}

IsDigit(c) == c \in DigitSet

DigitValue(c) == CodePoint(c) - 48

\* String.prototype.startsWith
StartsWith(s, prefix) ==
    /\ Len(s) >= Len(prefix)
    /\ SubSeq(s, 1, Len(prefix)) = prefix

\* String.prototype.endsWith
EndsWith(s, suffix) ==
    /\ Len(s) >= Len(suffix)
    /\ SubSeq(s, Len(s) - Len(suffix) + 1, Len(s)) = suffix

\* String.prototype.slice(start) for 0 <= start
Slice(s, start) ==
    IF start >= Len(s) THEN <<>> ELSE SubSeq(s, start + 1, Len(s))

(***************************************************************************)
(* JavaScript values                                                       *)
(***************************************************************************)
JsUndefined == [kind |-> "undefined", val |-> <<>>]

JsNull == [kind |-> "null", val |-> <<>>]

JsBool(b) == [kind |-> "boolean", val |-> b]

JsNum(n) == [kind |-> "number", val |-> n]

JsStr(s) == [kind |-> "string", val |-> s]

JsArr(xs) == [kind |-> "array", val |-> xs]

\* entries: sequence of [key |-> string, value |-> JS value], keys distinct
JsObj(entries) == [kind |-> "object", val |-> entries]

\* the typeof operator
TypeOf(v) ==
    CASE v.kind = "undefined" -> "undefined"
      [] v.kind = "boolean" -> "boolean"
      [] v.kind = "number" -> "number"
      [] v.kind = "string" -> "string"
      [] OTHER -> "object"

HasOwn(obj, key) == \E i \in 1..Len(obj.val) : obj.val[i].key = key

\* property read obj.key on a plain object; an absent property reads undefined
Get(obj, key) ==
    IF HasOwn(obj, key)
    THEN obj.val[CHOOSE i \in 1..Len(obj.val) : obj.val[i].key = key].value
    ELSE JsUndefined

\* a canonical array index "0", "1", ..., without leading zero
IsArrayIndex(key) ==
    /\ Len(key) \in 1..9
    /\ \A i \in 1..Len(key) : IsDigit(key[i])
    /\ (Len(key) > 1 => key[1] # "0")

RECURSIVE ToNumber(_)
ToNumber(key) ==
    IF key = <<>> THEN 0
    ELSE 10 * ToNumber(SubSeq(key, 1, Len(key) - 1)) + DigitValue(key[Len(key)])

RECURSIVE InsertIndexKey(_, _)
\* place an array-index property among the array-index properties, ascending
InsertIndexKey(entries, e) ==
    IF entries = <<>> THEN <<e>>
    ELSE IF IsArrayIndex(Head(entries).key) /\ ToNumber(Head(entries).key) < ToNumber(e.key)
         THEN <<Head(entries)>> \o InsertIndexKey(Tail(entries), e)
         ELSE <<e>> \o entries

\* obj[key] = value on the property list of an ordinary object: an existing
\* property keeps its place, a new array-index key goes in ascending numeric
\* order before all string keys, any other new key goes last
SetProp(entries, key, value) ==
    IF \E i \in 1..Len(entries) : entries[i].key = key
    THEN [i \in 1..Len(entries) |->
            IF entries[i].key = key THEN [key |-> key, value |-> value] ELSE entries[i]]
    ELSE IF IsArrayIndex(key)
         THEN InsertIndexKey(entries, [key |-> key, value |-> value])
         ELSE Append(entries, [key |-> key, value |-> value])

RECURSIVE AssignAll(_, _)
\* the property list after assigning the given entries, in order, to `entries`
AssignAll(entries, assigned) ==
    IF assigned = <<>> THEN entries
    ELSE AssignAll(SetProp(entries, Head(assigned).key, Head(assigned).value), Tail(assigned))

\* an object literal / JSON.parse result listing its properties in this order
ObjectOf(assigned) == JsObj(AssignAll(<<>>, assigned))

\* delete obj[key]
DeleteProp(entries, key) ==
    LET keep == {i \in 1..Len(entries) : entries[i].key # key}
        RECURSIVE Pick(_)
        Pick(i) == IF i > Len(entries) THEN <<>>
                   ELSE (IF i \in keep THEN <<entries[i]>> ELSE <<>>) \o Pick(i + 1)
    IN Pick(1)

(***************************************************************************)
(* JSON.stringify (compact form)                                           *)
(***************************************************************************)
RECURSIVE NumberToString(_)
NumberToString(n) ==
    IF n < 10 THEN <<Digits[n + 1]>>
    ELSE NumberToString(n \div 10) \o <<Digits[(n % 10) + 1]>>

\* the characters QuoteJSONString writes as an escape sequence
JsonEscaped == {"\"", "\\", "\n"}

RECURSIVE EscapeChars(_)
EscapeChars(s) ==
    IF \A i \in 1..Len(s) : s[i] \notin JsonEscaped THEN s
    ELSE LET i == CHOOSE i \in 1..Len(s) :
                      s[i] \in JsonEscaped /\ \A j \in 1..(i - 1) : s[j] \notin JsonEscaped
         IN SubSeq(s, 1, i - 1)
            \o <<"\\", IF s[i] = "\n" THEN "n" ELSE s[i]>>
            \o EscapeChars(SubSeq(s, i + 1, Len(s)))

QuoteJson(s) == <<"\"">> \o EscapeChars(s) \o <<"\"">>

RECURSIVE JsonStringify(_)
JsonStringify(v) ==
    LET RECURSIVE Elements(_, _)
        Elements(xs, first) ==
            IF xs = <<>> THEN <<>>
            ELSE (IF first THEN <<>> ELSE <<",">>)
                 \o (IF Head(xs).kind = "undefined" THEN <<"n", "u", "l", "l">>
                     ELSE JsonStringify(Head(xs)))
                 \o Elements(Tail(xs), FALSE)
        RECURSIVE Members(_, _)
        Members(es, first) ==
            IF es = <<>> THEN <<>>
            ELSE IF Head(es).value.kind = "undefined" THEN Members(Tail(es), first)
            ELSE (IF first THEN <<>> ELSE <<",">>)
                 \o QuoteJson(Head(es).key) \o <<":">> \o JsonStringify(Head(es).value)
                 \o Members(Tail(es), FALSE)
    IN CASE v.kind = "null" -> <<"n", "u", "l", "l">>
         [] v.kind = "boolean" -> IF v.val THEN <<"t", "r", "u", "e">>
                                  ELSE <<"f", "a", "l", "s", "e">>
         [] v.kind = "number" -> NumberToString(v.val)
         [] v.kind = "string" -> QuoteJson(v.val)
         [] v.kind = "array" -> <<"[">> \o Elements(v.val, TRUE) \o <<"]">>
         [] v.kind = "object" -> <<"{">> \o Members(v.val, TRUE) \o <<"}">>

(***************************************************************************)
(* String.prototype.localeCompare (ICU root collation)                     *)
(***************************************************************************)
\* primary order of the root collation over ASCII: punctuation and symbols,
\* then digits, then letters; upper and lower case share a primary weight
CollationOrder ==
    <<" ", "_", "-", ",", ";", ":", "!", "?", ".", "'", "\"", "(", ")", "[", "]", "{",
      "}", "@", "*", "/", "\\", "&", "#", "%", "BACKTICK", "^", "+", "<", "=", ">", "|", "~",
      "$", "0", "1", "2", "3", "4", "5", "6", "7", "8", "9", "a", "b", "c", "d", "e",
      "f", "g", "h", "i", "j", "k", "l", "m", "n", "o", "p", "q", "r", "s", "t", "u",
      "v", "w", "x", "y", "z">>

\* canonical decomposition: U+212A KELVIN SIGN decomposes to "K"
Decompose(c) == IF c = "KELVIN" THEN "K" ELSE c

IsUpper(c) == IndexOf(UpperLetters, c) # 0

ToLower(c) == IF IsUpper(c) THEN LowerLetters[IndexOf(UpperLetters, c)] ELSE c

PrimaryWeightTable ==
    [c \in Chars |-> IndexOf(CollationOrder, ToLower(Decompose(c)))]

PrimaryWeight(c) == PrimaryWeightTable[c]

\* tertiary (case) weight: lower case sorts before upper case
TertiaryWeightTable ==
    [c \in Chars |-> IF IsUpper(Decompose(c)) THEN 1 ELSE 0]

TertiaryWeight(c) == TertiaryWeightTable[c]

RECURSIVE CompareSeq(_, _)
\* lexicographic comparison of two weight sequences: -1, 0, 1
CompareSeq(left, right) ==
    IF left = <<>> /\ right = <<>> THEN 0
    ELSE IF left = <<>> THEN -1
    ELSE IF right = <<>> THEN 1
    ELSE IF Head(left) < Head(right) THEN -1
    ELSE IF Head(left) > Head(right) THEN 1
    ELSE CompareSeq(Tail(left), Tail(right))

CompareWeights(left, right, Weight(_)) ==
    CompareSeq([i \in 1..Len(left) |-> Weight(left[i])],
               [i \in 1..Len(right) |-> Weight(right[i])])

localeCompare(left, right) ==
    IF CompareWeights(left, right, PrimaryWeight) # 0
    THEN CompareWeights(left, right, PrimaryWeight)
    ELSE CompareWeights(left, right, TertiaryWeight)

\* comparison by UTF-16 code units (the ordinal order)
ordinalCompare(left, right) == CompareWeights(left, right, CodePoint)

(***************************************************************************)
(* Property names                                                          *)
(***************************************************************************)
K_version == <<"v", "e", "r", "s", "i", "o", "n">>

K_id == <<"i", "d">>

K_created == <<"c", "r", "e", "a", "t", "e", "d">>

K_creator == <<"c", "r", "e", "a", "t", "o", "r">>

K_intent == <<"i", "n", "t", "e", "n", "t">>

K_tool == <<"t", "o", "o", "l">>

K_upstream == <<"u", "p", "s", "t", "r", "e", "a", "m">>

K_content_hash == <<"c", "o", "n", "t", "e", "n", "t", "_", "h", "a", "s", "h">>

K_expires == <<"e", "x", "p", "i", "r", "e", "s">>

K_revocable == <<"r", "e", "v", "o", "c", "a", "b", "l", "e">>

K_license == <<"l", "i", "c", "e", "n", "s", "e">>

K_renews == <<"r", "e", "n", "e", "w", "s">>

K_extensions == <<"e", "x", "t", "e", "n", "s", "i", "o", "n", "s">>

K_attestation == <<"a", "t", "t", "e", "s", "t", "a", "t", "i", "o", "n">>

K_signature == <<"s", "i", "g", "n", "a", "t", "u", "r", "e">>

(***************************************************************************)
(* validation.ts                                                           *)
(***************************************************************************)
isRecord(value) == value.kind = "object"

isStringArray(value) ==
    /\ value.kind = "array"
    /\ \A i \in 1..Len(value.val) : TypeOf(value.val[i]) = "string"

isAttestation(value) ==
    IF ~isRecord(value) THEN FALSE
    ELSE IF \/ TypeOf(Get(value, K_version)) # "string"
            \/ TypeOf(Get(value, K_id)) # "string"
            \/ TypeOf(Get(value, K_created)) # "string"
            \/ TypeOf(Get(value, K_creator)) # "string"
         THEN FALSE
    ELSE IF Get(value, K_intent) # JsUndefined /\ TypeOf(Get(value, K_intent)) # "string"
         THEN FALSE
    ELSE IF Get(value, K_tool) # JsUndefined /\ TypeOf(Get(value, K_tool)) # "string"
         THEN FALSE
    ELSE IF Get(value, K_upstream) # JsUndefined /\ ~isStringArray(Get(value, K_upstream))
         THEN FALSE
    ELSE IF Get(value, K_expires) # JsUndefined /\ TypeOf(Get(value, K_expires)) # "string"
         THEN FALSE
    ELSE IF Get(value, K_revocable) # JsUndefined /\ TypeOf(Get(value, K_revocable)) # "boolean"
         THEN FALSE
    ELSE IF Get(value, K_license) # JsUndefined /\ TypeOf(Get(value, K_license)) # "string"
         THEN FALSE
    ELSE IF Get(value, K_extensions) # JsUndefined /\ ~isRecord(Get(value, K_extensions))
         THEN FALSE
    ELSE TRUE

isSignedAttestation(value) ==
    IF ~isRecord(value) THEN FALSE
    ELSE /\ TypeOf(Get(value, K_signature)) = "string"
         /\ isAttestation(Get(value, K_attestation))

(***************************************************************************)
(* canonicalize.ts                                                         *)
(***************************************************************************)
\* the comparator handed to sort: ([left], [right]) => left.localeCompare(right)
compareEntries(left, right) == localeCompare(left.key, right.key)

RECURSIVE InsertStable(_, _)
\* insert entry e after every entry that does not compare greater than it
InsertStable(sorted, e) ==
    IF sorted = <<>> THEN <<e>>
    ELSE IF compareEntries(Head(sorted), e) <= 0
         THEN <<Head(sorted)>> \o InsertStable(Tail(sorted), e)
         ELSE <<e>> \o sorted

RECURSIVE SortEntries(_, _)
\* Array.prototype.sort with the comparator, a stable sort: entries[1..n] sorted
SortEntries(entries, n) ==
    IF n = 0 THEN <<>>
    ELSE InsertStable(SortEntries(entries, n - 1), entries[n])

RECURSIVE sortValue(_)
sortValue(value) ==
    IF value.kind = "array"
    THEN JsArr([i \in 1..Len(value.val) |-> sortValue(value.val[i])])
    ELSE IF value.kind = "object"
    THEN LET entries == SortEntries(value.val, Len(value.val))
         IN JsObj(AssignAll(<<>>, [i \in 1..Len(entries) |->
                [key |-> entries[i].key, value |-> sortValue(entries[i].value)]]))
    ELSE value

canonicalizeAttestation(attestation) == JsonStringify(sortValue(attestation))

(***************************************************************************)
(* base64url.ts and Buffer base64 coding                                   *)
(***************************************************************************)
B64UrlAlphabet ==
    UpperLetters \o LowerLetters \o Digits \o <<"-", "_">>

B64StdAlphabet ==
    UpperLetters \o LowerLetters \o Digits \o <<"+", "/">>

\* the 6-bit value of a character in either alphabet, 64 for any other character
unbase64Table ==
    [c \in Chars |->
        IF IndexOf(B64UrlAlphabet, c) # 0 THEN IndexOf(B64UrlAlphabet, c) - 1
        ELSE IF IndexOf(B64StdAlphabet, c) # 0 THEN IndexOf(B64StdAlphabet, c) - 1
        ELSE 64]

unbase64(c) == unbase64Table[c]

RECURSIVE LegalSextets(_)
\* the decoder skips characters outside the alphabets and stops at padding
LegalSextets(s) ==
    IF s = <<>> \/ Head(s) = "=" THEN <<>>
    ELSE (IF unbase64(Head(s)) < 64 THEN <<unbase64(Head(s))>> ELSE <<>>)
         \o LegalSextets(Tail(s))

RECURSIVE SextetsToBytes(_)
SextetsToBytes(x) ==
    IF Len(x) < 2 THEN <<>>
    ELSE LET b1 == x[1] * 4 + (x[2] \div 16)
         IN IF Len(x) = 2 THEN <<b1>>
            ELSE LET b2 == (x[2] % 16) * 16 + (x[3] \div 4)
                 IN IF Len(x) = 3 THEN <<b1, b2>>
                    ELSE <<b1, b2, (x[3] % 4) * 64 + x[4]>>
                         \o SextetsToBytes(SubSeq(x, 5, Len(x)))

RECURSIVE BytesToSextets(_)
BytesToSextets(b) ==
    IF b = <<>> THEN <<>>
    ELSE IF Len(b) = 1 THEN <<b[1] \div 4, (b[1] % 4) * 16>>
    ELSE IF Len(b) = 2
         THEN <<b[1] \div 4, (b[1] % 4) * 16 + (b[2] \div 16), (b[2] % 16) * 4>>
    ELSE <<b[1] \div 4, (b[1] % 4) * 16 + (b[2] \div 16),
           (b[2] % 16) * 4 + (b[3] \div 64), b[3] % 64>>
         \o BytesToSextets(SubSeq(b, 4, Len(b)))

\* Buffer.from(value, "base64url"): never throws
decodeBase64Url(value) == SextetsToBytes(LegalSextets(value))

\* buffer.toString("base64url"): URL alphabet, no padding
encodeBase64Url(value) ==
    LET x == BytesToSextets(value)
    IN [i \in 1..Len(x) |-> B64UrlAlphabet[x[i] + 1]]

\* buffer.toString("base64"): standard alphabet, padded to a multiple of four
encodeBase64(value) ==
    LET x == BytesToSextets(value)
    IN [i \in 1..Len(x) |-> B64StdAlphabet[x[i] + 1]]
       \o [i \in 1..((4 - (Len(x) % 4)) % 4) |-> "="]

(***************************************************************************)
(* node:crypto: Ed25519 keys and signatures                                *)
(***************************************************************************)
\* outcome of a call that may throw
Returned(v) == [ok |-> TRUE, val |-> v]

Thrown == [ok |-> FALSE, val |-> <<>>]

PublicKeyLength == 32

SignatureLength == 64

\* the key pairs generateKeyPairSync can hand out are numbered 1..NumKeys;
\* the raw public key of pair k
PublicKeyBytes(k) == [i \in 1..PublicKeyLength |-> (16 * k + i) % 256]

KeyObject(raw) == [kind |-> "keyobject", val |-> raw]

\* Buffer.from("302a300506032b6570032100", "hex")
spkiPrefix == <<48, 42, 48, 5, 6, 3, 43, 101, 112, 3, 33, 0>>

PemHeader == <<"-", "-", "-", "-", "-", "B", "E", "G", "I", "N", " ", "P", "U", "B", "L", "I", "C", " ", "K", "E", "Y", "-", "-", "-", "-", "-">> \o <<"\n">>

PemFooter == <<"\n">> \o <<"-", "-", "-", "-", "-", "E", "N", "D", " ", "P", "U", "B", "L", "I", "C", " ", "K", "E", "Y", "-", "-", "-", "-", "-">> \o <<"\n">>

\* publicKey.export({ type: "spki", format: "pem" })
ExportPem(raw) == PemHeader \o encodeBase64(spkiPrefix \o raw) \o PemFooter

\* createPublicKey({ format: "der", key: der, type: "spki" })
createPublicKeyDer(der) ==
    IF /\ Len(der) = Len(spkiPrefix) + PublicKeyLength
       /\ SubSeq(der, 1, Len(spkiPrefix)) = spkiPrefix
    THEN Returned(KeyObject(SubSeq(der, Len(spkiPrefix) + 1, Len(der))))
    ELSE Thrown

\* createPublicKey(pem)
createPublicKeyPem(pem) ==
    IF /\ Len(pem) >= Len(PemHeader) + Len(PemFooter)
       /\ StartsWith(pem, PemHeader)
       /\ EndsWith(pem, PemFooter)
    THEN createPublicKeyDer(decodeBase64Url(
            SubSeq(pem, Len(PemHeader) + 1, Len(pem) - Len(PemFooter))))
    ELSE Thrown

(***************************************************************************)
(* State                                                                   *)
(***************************************************************************)
VARIABLES
    signatures,   \* every Ed25519 signature made so far: <<[key, data]>>
    draft,        \* the attestation the caller built
    signed,       \* the signed attestation as currently stored (a JS value)
    original,     \* the signed attestation as signAttestation returned it
    call,         \* the last verifyAttestation call and its outcome
    input,        \* the argument of a direct call of a codec function
    output,       \* what that call returned
    files,        \* the file system: path |-> content of every file that exists
    events,       \* the event buffer of the MCP server
    uuids,        \* how many times randomUUID() has been called
    held,         \* what the server has returned to its callers, in order
    listeners,    \* the "event" listeners of the server's emitter: watch calls
    watches,      \* the arr.events.watch calls made so far
    timers,       \* the pending setTimeout timers: id |-> time left and callback
    stream,       \* the events written to the widget's event stream, not yet read
    widget,       \* the widget: its lifecycle state and status line
    pending,      \* the watch folder's map from file path to pending timer
    runs,         \* the file paths the watch folder has started to process
    fsevents,     \* the file-system events of the watched folder, by path
    consumer      \* a caller of arr.events.list: the events it has received

verifyVars == <<signatures, draft, signed, original, call>>

\* the state of the MCP server, of its callers, of the widget and of the
\* watch folder
serviceVars ==
    <<events, uuids, held, listeners, watches, timers, stream, widget, pending, runs,
      fsevents, consumer>>

vars == <<signatures, draft, signed, original, call, input, output, files, serviceVars>>

\* no server has been created
ServiceOff ==
    /\ events = <<>>
    /\ uuids = 0
    /\ held = <<>>
    /\ listeners = {}
    /\ watches = <<>>
    /\ timers = <<>>
    /\ stream = <<>>
    /\ widget = [mounted |-> FALSE, state |-> "idle", status |-> "idle"]
    /\ pending = <<>>
    /\ runs = <<>>
    /\ fsevents = <<>>
    /\ consumer = [received |-> <<>>, calls |-> 0, gap |-> FALSE]

(***************************************************************************)
(* node:crypto sign / verify                                               *)
(***************************************************************************)
\* the signature bytes of the n-th distinct (key, data) pair signed
SigBytes(n) == [i \in 1..SignatureLength |-> (31 * n + 7 * i) % 256]

SignatureIndex(table, k, data) ==
    IF \E n \in 1..Len(table) : table[n] = [key |-> k, data |-> data]
    THEN CHOOSE n \in 1..Len(table) : table[n] = [key |-> k, data |-> data]
    ELSE Len(table) + 1

\* crypto.sign(null, data, key): Ed25519 is deterministic
signBytes(data, k) == SigBytes(SignatureIndex(signatures, k, data))

\* crypto.verify(null, data, key, signature): throws unless key is a KeyObject;
\* true exactly for a signature made over this data by the matching private key
verifyBytes(data, key, signature) ==
    IF key.kind # "keyobject" THEN Thrown
    ELSE Returned(\E n \in 1..Len(signatures) :
                    /\ SigBytes(n) = signature
                    /\ signatures[n].data = data
                    /\ PublicKeyBytes(signatures[n].key) = key.val)

(***************************************************************************)
(* keys.ts                                                                 *)
(***************************************************************************)
ED25519_PREFIX == <<"e", "d", "2", "5", "5", "1", "9", ":">>

PUBKEY_CREATOR_PREFIX == <<"p", "u", "b", "k", "e", "y", ":", "e", "d", "2", "5", "5", "1", "9", ":">>

ensurePublicKey(publicKey) ==
    IF TypeOf(publicKey) = "string" THEN createPublicKeyPem(publicKey.val)
    ELSE Returned(publicKey)

\* the caller holds private key k
signAttestation(attestation, k) ==
    LET canonical == canonicalizeAttestation(attestation)
        signature == signBytes(canonical, k)
    IN ObjectOf(<<[key |-> K_attestation, value |-> attestation],
                  [key |-> K_signature,
                   value |-> JsStr(ED25519_PREFIX \o encodeBase64Url(signature))]>>)

verifySignature(attestation, signature, publicKey) ==
    IF ~StartsWith(signature, ED25519_PREFIX) THEN Returned(FALSE)
    ELSE LET encodedSignature == Slice(signature, Len(ED25519_PREFIX))
             signatureBytesBuffer == decodeBase64Url(encodedSignature)
             canonical == canonicalizeAttestation(attestation)
             key == ensurePublicKey(publicKey)
         IN IF ~key.ok THEN Thrown
            ELSE verifyBytes(canonical, key.val, signatureBytesBuffer)

parseCreatorPublicKey(creator) ==
    IF ~StartsWith(creator, PUBKEY_CREATOR_PREFIX) THEN Returned(JsNull)
    ELSE LET encodedPublicKey == Slice(creator, Len(PUBKEY_CREATOR_PREFIX))
             publicKeyBytes == decodeBase64Url(encodedPublicKey)
         IN IF Len(publicKeyBytes) # 32 THEN Thrown
            ELSE createPublicKeyDer(spkiPrefix \o publicKeyBytes)

publicKeyPemToCreator(publicKeyPem) ==
    LET key == createPublicKeyPem(publicKeyPem)
    IN IF ~key.ok THEN Thrown
       ELSE Returned(PUBKEY_CREATOR_PREFIX \o encodeBase64Url(key.val.val))

(***************************************************************************)
(* Date                                                                    *)
(***************************************************************************)
MsPerDay == 86400000

NaN == -1

IsLeapYear(y) == (y % 4 = 0 /\ y % 100 # 0) \/ y % 400 = 0

DaysBeforeMonth(y, m) ==
    LET lengths == <<31, IF IsLeapYear(y) THEN 29 ELSE 28, 31, 30, 31, 30,
                     31, 31, 30, 31, 30, 31>>
        RECURSIVE Sum(_)
        Sum(i) == IF i = 0 THEN 0 ELSE lengths[i] + Sum(i - 1)
    IN Sum(m - 1)

\* days from 1970-01-01 to January 1st of year y >= 1970
DaysBeforeYear(y) ==
    365 * (y - 1970) + ((y - 1969) \div 4) - ((y - 1901) \div 100) + ((y - 1601) \div 400)

\* new Date(text).getTime() for the ISO date-only form YYYY-MM-DD (UTC
\* midnight, years from 1970); NaN for text that is not a date.  Other date
\* forms are outside this operator.
DateParse(text) ==
    IF /\ Len(text) = 10
       /\ text[5] = "-" /\ text[8] = "-"
       /\ \A i \in {1, 2, 3, 4, 6, 7, 9, 10} : IsDigit(text[i])
    THEN LET y == ToNumber(SubSeq(text, 1, 4))
             m == ToNumber(SubSeq(text, 6, 7))
             d == ToNumber(SubSeq(text, 9, 10))
         IN IF y >= 1970 /\ m \in 1..12 /\ d \in 1..31
            THEN (DaysBeforeYear(y) + DaysBeforeMonth(y, m) + d - 1) * MsPerDay
            ELSE NaN
    ELSE NaN

(***************************************************************************)
(* verify.ts                                                               *)
(***************************************************************************)
\* ToBoolean
Truthy(v) ==
    CASE v.kind \in {"undefined", "null"} -> FALSE
      [] v.kind = "boolean" -> v.val
      [] v.kind = "number" -> v.val # 0
      [] v.kind = "string" -> v.val # <<>>
      [] OTHER -> TRUE

\* returns the Date's time value, or undefined
parseExpiry(expires) ==
    IF expires = JsUndefined THEN Returned(JsUndefined)
    ELSE LET parsed == DateParse(expires.val)
         IN IF parsed = NaN THEN Thrown
            ELSE Returned(JsNum(parsed))

\* resolvePublicKey preferring the creator's embedded key to the explicit one
resolvePublicKey_CreatorFirst(signedValue, explicitPublicKey) ==
    LET fromCreator ==
            parseCreatorPublicKey(Get(Get(signedValue, K_attestation), K_creator).val)
    IN IF ~fromCreator.ok THEN Thrown
       ELSE IF Truthy(fromCreator.val) THEN fromCreator
       ELSE IF Truthy(explicitPublicKey) THEN Returned(explicitPublicKey)
       ELSE Returned(JsNull)

resolvePublicKey(signedValue, explicitPublicKey) ==
    IF Truthy(explicitPublicKey) THEN Returned(explicitPublicKey)
    ELSE parseCreatorPublicKey(Get(Get(signedValue, K_attestation), K_creator).val)

Malformed == [valid |-> FALSE, reason |-> "malformed"]

SUPPORTED_VERSION == <<"a", "r", "r", "/", "0", ".", "1">>

\* VerifyExpiry reporting the caught error's own code instead of "malformed"
VerifyExpiry_ErrorCode(signedValue, dateNow) ==
    LET expiryDate == parseExpiry(Get(Get(signedValue, K_attestation), K_expires))
    IN IF ~expiryDate.ok
       THEN Returned([valid |-> FALSE, reason |-> "invalid_expiry"])
       ELSE IF expiryDate.val = JsUndefined
       THEN Returned([valid |-> TRUE, expired |-> FALSE])
       ELSE Returned([valid |-> TRUE, expired |-> dateNow > expiryDate.val.val])

\* VerifyExpiry comparing with >= : expired at the very instant of expires
VerifyExpiry_AtInstant(signedValue, dateNow) ==
    LET expiryDate == parseExpiry(Get(Get(signedValue, K_attestation), K_expires))
    IN IF ~expiryDate.ok
       THEN Returned(Malformed)
       ELSE IF expiryDate.val = JsUndefined
       THEN Returned([valid |-> TRUE, expired |-> FALSE])
       ELSE Returned([valid |-> TRUE, expired |-> dateNow >= expiryDate.val.val])

\* verifyAttestation, the expiry block: try { parseExpiry ... } catch
VerifyExpiry(signedValue, dateNow) ==
    LET expiryDate == parseExpiry(Get(Get(signedValue, K_attestation), K_expires))
    IN IF ~expiryDate.ok
       THEN Returned(Malformed)
       ELSE IF expiryDate.val = JsUndefined
       THEN Returned([valid |-> TRUE, expired |-> FALSE])
       ELSE Returned([valid |-> TRUE, expired |-> dateNow > expiryDate.val.val])

\* VerifyWithKey parsing expires before it looks at the signature
VerifyWithKey_ExpiryFirst(signedValue, publicKey, dateNow) ==
    LET signatureValid == verifySignature(Get(signedValue, K_attestation),
                                          Get(signedValue, K_signature).val,
                                          publicKey)
    IN IF ~parseExpiry(Get(Get(signedValue, K_attestation), K_expires)).ok
       THEN Returned(Malformed)
       ELSE IF ~signatureValid.ok
       THEN Returned(Malformed)
       ELSE IF ~signatureValid.val
       THEN Returned([valid |-> FALSE, reason |-> "invalid_signature"])
       ELSE VerifyExpiry(signedValue, dateNow)

\* VerifyWithKey that never looks at what verifySignature returned
VerifyWithKey_IgnoreVerdict(signedValue, publicKey, dateNow) ==
    LET signatureValid == verifySignature(Get(signedValue, K_attestation),
                                          Get(signedValue, K_signature).val,
                                          publicKey)
    IN IF ~signatureValid.ok
       THEN Returned(Malformed)
       ELSE VerifyExpiry(signedValue, dateNow)

\* verifyAttestation, the signature block: try { verifySignature } catch, then
\* the expiry block
VerifyWithKey(signedValue, publicKey, dateNow) ==
    LET signatureValid == verifySignature(Get(signedValue, K_attestation),
                                          Get(signedValue, K_signature).val,
                                          publicKey)
    IN IF ~signatureValid.ok
       THEN Returned(Malformed)
       ELSE IF ~signatureValid.val
       THEN Returned([valid |-> FALSE, reason |-> "invalid_signature"])
       ELSE VerifyExpiry(signedValue, dateNow)

\* VerifyResolvingKey without the try/catch around resolvePublicKey
VerifyResolvingKey_NoCatch(signedValue, explicitPublicKey, dateNow) ==
    LET publicKey == resolvePublicKey(signedValue, explicitPublicKey)
    IN IF ~publicKey.ok
       THEN Thrown
       ELSE IF ~Truthy(publicKey.val)
       THEN Returned([valid |-> FALSE, reason |-> "missing_public_key"])
       ELSE VerifyWithKey(signedValue, publicKey.val, dateNow)

\* verifyAttestation, the key block: try { resolvePublicKey } catch, the
\* missing-key return, then the signature block
VerifyResolvingKey(signedValue, explicitPublicKey, dateNow) ==
    LET publicKey == resolvePublicKey(signedValue, explicitPublicKey)
    IN IF ~publicKey.ok
       THEN Returned(Malformed)
       ELSE IF ~Truthy(publicKey.val)
       THEN Returned([valid |-> FALSE, reason |-> "missing_public_key"])
       ELSE VerifyWithKey(signedValue, publicKey.val, dateNow)

\* dateNow is the value Date.now() returns during the call
verifyAttestation(signedValue, explicitPublicKey, dateNow) ==
    IF ~isSignedAttestation(signedValue)
    THEN Returned(Malformed)
    ELSE IF Get(Get(signedValue, K_attestation), K_version) # JsStr(SUPPORTED_VERSION)
    THEN Returned([valid |-> FALSE, reason |-> "unsupported_version"])
    ELSE VerifyResolvingKey(signedValue, explicitPublicKey, dateNow)

(***************************************************************************)
(* Callers: the values handed to the codec                                 *)
(***************************************************************************)
NumKeys == 2

Keys == 1..NumKeys

Entry(k, v) == [key |-> k, value |-> v]

\* generateKeyPair().creator for key pair k
CreatorOf(k) ==
    publicKeyPemToCreator(ExportPem(PublicKeyBytes(k))).val

\* a creator id naming no key
HashCreator == <<"h", "a", "s", "h", ":", "s", "h", "a", "2", "5", "6", ":", "a", "b", "c">>

\* a pubkey creator id whose payload decodes to 31 bytes
ShortKeyCreator ==
    PUBKEY_CREATOR_PREFIX \o encodeBase64Url(SubSeq(PublicKeyBytes(1), 1, 31))

Creators == {CreatorOf(k) : k \in Keys} \cup {HashCreator, ShortKeyCreator}

ExpiryDay == <<"1", "9", "7", "0", "-", "0", "1", "-", "0", "2">>

NotADate == <<"s", "o", "o", "n">>

\* expires values of a draft: <<>> stands for an absent field
DraftExpires == {<<>>, ExpiryDay, NotADate}

Versions == {SUPPORTED_VERSION, <<"a", "r", "r", "/", "9", ".", "9">>}

\* buildAttestation of the tests: { version, id, created, creator, intent, expires? }
BuildAttestation(version, creator, expires) ==
    ObjectOf(<<Entry(K_version, JsStr(version)),
               Entry(K_id, JsStr(<<"t", "1">>)),
               Entry(K_created, JsStr(<<"1", "9", "7", "0", "-", "0", "1", "-", "0", "1">>)),
               Entry(K_creator, JsStr(creator)),
               Entry(K_intent, JsStr(<<"O", "r", "i", "g", "i", "n", "a", "l">>))>>
             \o (IF expires = <<>> THEN <<>> ELSE <<Entry(K_expires, JsStr(expires))>>))

Drafts ==
    {BuildAttestation(v, c, e) : v \in Versions, c \in Creators, e \in DraftExpires}

\* the values Date.now() takes: just before, at and just after ExpiryDay
NowValues ==
    {DateParse(ExpiryDay) - 1, DateParse(ExpiryDay), DateParse(ExpiryDay) + 1}

NotAKey == <<"n", "o", "t", " ", "a", " ", "k", "e", "y">>

\* second argument of verifyAttestation: omitted, empty, a PEM string, a
\* KeyObject, text that is no key, a value that is no key
ExplicitKeys ==
    {JsUndefined, JsStr(<<>>), JsStr(NotAKey), JsNum(7)}
    \cup {JsStr(ExportPem(PublicKeyBytes(k))) : k \in Keys}
    \cup {KeyObject(PublicKeyBytes(k)) : k \in Keys}

\* replacement values for a field of the attestation
FieldChanges ==
    {Entry(K_version, v) : v \in {JsStr(<<"a", "r", "r", "/", "9", ".", "9">>), JsNum(1)}}
    \cup {Entry(K_intent, v) : v \in {JsStr(<<"T", "a", "m", "p", "e", "r", "e", "d">>), JsNum(1), JsUndefined}}
    \cup {Entry(K_creator, JsStr(c)) : c \in Creators}
    \cup {Entry(K_expires, v) : v \in {JsStr(ExpiryDay), JsStr(NotADate), JsNum(5)}}
    \cup {Entry(K_content_hash, v) : v \in {JsNum(1), JsStr(<<"s", "h", "a", "2", "5", "6", ":", "0", "0">>)}}
    \cup {Entry(K_revocable, v) : v \in {JsBool(FALSE), JsStr(<<"n", "o">>)}}

\* replacement values for the signature property
SignatureChanges ==
    {JsStr(<<"r", "s", "a", ":", "A", "A", "A", "A">>), JsStr(ED25519_PREFIX), JsStr(ED25519_PREFIX \o <<"!", "!">>),
     JsStr(ED25519_PREFIX \o encodeBase64Url(SigBytes(NumKeys + 7))), JsNum(0), JsUndefined}

\* replacement values for the attestation property or the whole envelope
NonRecords == {JsNull, JsUndefined, JsNum(3), JsArr(<<>>), JsStr(<<"x">>)}

NoCall == [made |-> FALSE]

NoInput == [given |-> FALSE]

NoOutput == [made |-> FALSE]

\* an empty file system
NoFiles == <<>>

(***************************************************************************)
(* Actions                                                                 *)
(***************************************************************************)
Init ==
    /\ signatures = <<>>
    /\ draft \in Drafts
    /\ signed = JsUndefined
    /\ original = JsUndefined
    /\ call = NoCall
    /\ input = NoInput
    /\ output = NoOutput
    /\ files = NoFiles
    /\ ServiceOff

\* signAttestation(draft, private key k)
Sign(k) ==
    /\ original = JsUndefined
    /\ LET canonical == canonicalizeAttestation(draft)
           n == SignatureIndex(signatures, k, canonical)
       IN /\ signed' = signAttestation(draft, k)
          /\ original' = signAttestation(draft, k)
          /\ signatures' = IF n > Len(signatures)
                           THEN Append(signatures, [key |-> k, data |-> canonical])
                           ELSE signatures
    /\ UNCHANGED <<draft, call, input, output, files, serviceVars>>

\* { ...original, attestation: { ...original.attestation, [field]: value } }
TamperField(change) ==
    /\ original # JsUndefined
    /\ call = NoCall
    /\ signed' = JsObj(SetProp(original.val, K_attestation,
                    JsObj(SetProp(Get(original, K_attestation).val,
                                  change.key, change.value))))
    /\ UNCHANGED <<signatures, draft, original, call, input, output, files, serviceVars>>

\* { ...original, signature: value }
TamperSignature(value) ==
    /\ original # JsUndefined
    /\ call = NoCall
    /\ signed' = JsObj(SetProp(original.val, K_signature, value))
    /\ UNCHANGED <<signatures, draft, original, call, input, output, files, serviceVars>>

\* the stored value is replaced by a non-record, or its attestation is
ReplaceEnvelope(value, whole) ==
    /\ original # JsUndefined
    /\ call = NoCall
    /\ signed' = IF whole THEN value
                 ELSE JsObj(SetProp(original.val, K_attestation, value))
    /\ UNCHANGED <<signatures, draft, original, call, input, output, files, serviceVars>>

\* verifyAttestation(signed, explicitPublicKey) while the clock reads dateNow
Verify(explicitPublicKey, dateNow) ==
    /\ call = NoCall
    /\ call' = [made |-> TRUE, signed |-> signed, key |-> explicitPublicKey,
                now |-> dateNow,
                outcome |-> verifyAttestation(signed, explicitPublicKey, dateNow)]
    /\ UNCHANGED <<signatures, draft, signed, original, input, output, files, serviceVars>>

Next ==
    \/ \E k \in Keys : Sign(k)
    \/ \E change \in FieldChanges : TamperField(change)
    \/ \E value \in SignatureChanges : TamperSignature(value)
    \/ \E value \in NonRecords, whole \in BOOLEAN : ReplaceEnvelope(value, whole)
    \/ \E key \in ExplicitKeys, t \in NowValues : Verify(key, t)

Spec == Init /\ [][Next]_vars

(***************************************************************************)
(* Direct calls of canonicalizeAttestation                                 *)
(***************************************************************************)
\* the permutations of 1..n
Perms(n) == {p \in [1..n -> 1..n] : \A i, j \in 1..n : i # j => p[i] # p[j]}

Shuffle(entries, p) == [i \in 1..Len(entries) |-> entries[p[i]]]

\* the key sets given to the extensions record and to the record in its array
ExtensionKeySets ==
    {<<<<"z", "e", "b", "r", "a">>, <<"a", "l", "p", "h", "a">>>>,
     <<<<"B">>, <<"a">>>>,
     <<<<"b">>, <<"B">>, <<"a">>>>,
     <<<<"K">>, <<"KELVIN">>>>,
     <<<<"1", "0">>, <<"9">>, <<"x">>>>}

\* { k1: 1, k2: 2, ... } with the keys inserted in the order p
NumberedRecord(keys, p) ==
    ObjectOf(Shuffle([i \in 1..Len(keys) |-> Entry(keys[i], JsNum(i))], p))

\* the attestation { version, creator, extensions: { ...keys, list: [inner, 7] } }
\* with the keys of each of its three records inserted in the given orders
ShuffledAttestation(keys, top, mid, low, swap) ==
    ObjectOf(Shuffle(
        <<Entry(K_version, JsStr(SUPPORTED_VERSION)),
          Entry(K_creator, JsStr(HashCreator)),
          Entry(K_extensions,
                ObjectOf(AssignAll(NumberedRecord(keys, mid).val,
                    <<Entry(<<"l", "i", "s", "t">>,
                            JsArr(IF swap THEN <<JsNum(7), NumberedRecord(keys, low)>>
                                  ELSE <<NumberedRecord(keys, low), JsNum(7)>>))>>)))>>,
        top))

Identity(n) == [i \in 1..n |-> i]

\* reference: keys inserted in the listed order; shuffled: any insertion
\* orders; reversed: the reference with the array elements swapped
CanonInputs ==
    UNION {
      {[given |-> TRUE,
        reference |-> ShuffledAttestation(keys, Identity(3), Identity(Len(keys)),
                                          Identity(Len(keys)), FALSE),
        shuffled |-> ShuffledAttestation(keys, top, mid, low, FALSE),
        reversed |-> ShuffledAttestation(keys, Identity(3), Identity(Len(keys)),
                                         Identity(Len(keys)), TRUE)] :
          top \in Perms(3), mid \in Perms(Len(keys)), low \in Perms(Len(keys))} :
      keys \in ExtensionKeySets}

InitCanon ==
    /\ signatures = <<>>
    /\ draft = BuildAttestation(SUPPORTED_VERSION, HashCreator, <<>>)
    /\ signed = JsUndefined
    /\ original = JsUndefined
    /\ call = NoCall
    /\ input \in CanonInputs
    /\ output = NoOutput
    /\ files = NoFiles
    /\ ServiceOff

Canonicalize ==
    /\ input # NoInput
    /\ output = NoOutput
    /\ output' = [made |-> TRUE,
                  op |-> "canonicalizeAttestation",
                  reference |-> canonicalizeAttestation(input.reference),
                  shuffled |-> canonicalizeAttestation(input.shuffled),
                  reversed |-> canonicalizeAttestation(input.reversed),
                  sorted |-> sortValue(input.shuffled)]
    /\ UNCHANGED <<verifyVars, input, files, serviceVars>>

NextCanon == Canonicalize

SpecCanon == InitCanon /\ [][NextCanon]_vars

(***************************************************************************)
(* Direct calls of isAttestation                                           *)
(***************************************************************************)
AttestationFields ==
    {K_version, K_id, K_created, K_creator, K_intent, K_tool, K_upstream,
     K_content_hash, K_expires, K_revocable, K_license, K_renews, K_extensions}

\* an attestation with every field present and of its declared type
FullAttestation ==
    ObjectOf(<<Entry(K_version, JsStr(SUPPORTED_VERSION)),
               Entry(K_id, JsStr(<<"t", "1">>)),
               Entry(K_created, JsStr(<<"1", "9", "7", "0", "-", "0", "1", "-", "0", "1">>)),
               Entry(K_creator, JsStr(HashCreator)),
               Entry(K_intent, JsStr(<<"O", "r", "i", "g", "i", "n", "a", "l">>)),
               Entry(K_tool, JsStr(<<"t", "o", "o", "l", "/", "1">>)),
               Entry(K_upstream, JsArr(<<JsStr(<<"t", "0">>)>>)),
               Entry(K_content_hash, JsStr(<<"s", "h", "a", "2", "5", "6", ":", "0", "0">>)),
               Entry(K_expires, JsStr(ExpiryDay)),
               Entry(K_revocable, JsBool(TRUE)),
               Entry(K_license, JsStr(<<"M", "I", "T">>)),
               Entry(K_renews, JsStr(<<"t", "0">>)),
               Entry(K_extensions, JsObj(<<>>))>>)

\* one value of every kind a parsed JSON document or a caller can supply
SampleValues ==
    {JsUndefined, JsNull, JsBool(FALSE), JsNum(1), JsStr(<<"x">>),
     JsArr(<<JsStr(<<"x">>)>>), JsArr(<<JsNum(1)>>),
     JsObj(<<Entry(<<"k">>, JsNum(1))>>)}

ValidatorInputs ==
    {[given |-> TRUE, value |-> JsObj(SetProp(FullAttestation.val, f, v))] :
        f \in AttestationFields, v \in SampleValues}
    \cup {[given |-> TRUE, value |-> JsObj(DeleteProp(FullAttestation.val, f))] :
        f \in AttestationFields}
    \cup {[given |-> TRUE, value |-> v] : v \in SampleValues}

InitValidate ==
    /\ signatures = <<>>
    /\ draft = BuildAttestation(SUPPORTED_VERSION, HashCreator, <<>>)
    /\ signed = JsUndefined
    /\ original = JsUndefined
    /\ call = NoCall
    /\ input \in ValidatorInputs
    /\ output = NoOutput
    /\ files = NoFiles
    /\ ServiceOff

Validate ==
    /\ input # NoInput
    /\ output = NoOutput
    /\ output' = [made |-> TRUE,
                  op |-> "isAttestation",
                  accepted |-> isAttestation(input.value)]
    /\ UNCHANGED <<verifyVars, input, files, serviceVars>>

NextValidate == Validate

SpecValidate == InitValidate /\ [][NextValidate]_vars

(***************************************************************************)
(* String.prototype methods used by the adapters                           *)
(***************************************************************************)
\* the least element of a non-empty set of integers
Least(S) == CHOOSE i \in S : \A j \in S : i <= j

\* the positions where pattern occurs in s
Occurrences(s, pattern) ==
    {i \in 1..(Len(s) - Len(pattern) + 1) :
        s[i] = pattern[1] /\ SubSeq(s, i, i + Len(pattern) - 1) = pattern}

\* String.prototype.includes
includes(s, pattern) == Occurrences(s, pattern) # {}

\* String.prototype.replaceAll(pattern, replacement): the occurrences are
\* taken from the left and do not overlap
\* a pattern of which a proper prefix is also a suffix can overlap itself
CanOverlap(pattern) ==
    \E n \in 1..(Len(pattern) - 1) :
        SubSeq(pattern, 1, n) = SubSeq(pattern, Len(pattern) - n + 1, Len(pattern))

\* String.prototype.replaceAll(pattern, replacement): the occurrences are
\* taken from the left and do not overlap
replaceAll(s, pattern, replacement) ==
    LET hits == Occurrences(s, pattern)
        \* occurrences cannot overlap: each one is replaced; the text is put
        \* together by halves so that the evaluation stays shallow
        RECURSIVE Ascending(_, _)
        Ascending(lo, hi) ==
            IF \A i \in hits : i < lo \/ i > hi THEN <<>>
            ELSE IF lo = hi THEN <<lo>>
            ELSE Ascending(lo, (lo + hi) \div 2) \o Ascending((lo + hi) \div 2 + 1, hi)
        ordered == Ascending(1, Len(s))
        Nth(n) == ordered[n]
        Piece(n) ==
            SubSeq(s, IF n = 1 THEN 1 ELSE Nth(n - 1) + Len(pattern), Nth(n) - 1)
            \o replacement
        RECURSIVE Pieces(_, _)
        Pieces(lo, hi) ==
            IF lo > hi THEN <<>>
            ELSE IF lo = hi THEN Piece(lo)
            ELSE Pieces(lo, (lo + hi) \div 2) \o Pieces((lo + hi) \div 2 + 1, hi)
        \* occurrences can overlap: the leftmost one at or after the cursor
        RECURSIVE From(_)
        From(cursor) ==
            LET rest == {i \in hits : i >= cursor}
            IN IF rest = {} THEN SubSeq(s, cursor, Len(s))
               ELSE SubSeq(s, cursor, Least(rest) - 1) \o replacement
                    \o From(Least(rest) + Len(pattern))
    IN IF hits = {} THEN s
       ELSE IF CanOverlap(pattern) THEN From(1)
       ELSE Pieces(1, Cardinality(hits))
            \o SubSeq(s, Nth(Cardinality(hits)) + Len(pattern), Len(s))

\* the white space of the model's alphabet
IsSpace(c) == c \in {" ", "\n"}

\* String.prototype.trim
trim(s) ==
    LET kept == {i \in 1..Len(s) : ~IsSpace(s[i])}
    IN IF kept = {} THEN <<>>
       ELSE SubSeq(s, Least(kept), CHOOSE i \in kept : \A j \in kept : j <= i)

(***************************************************************************)
(* Buffer: byte sequences and their encodings                              *)
(***************************************************************************)
\* the character of a single byte (latin1); a byte outside the model's
\* alphabet is the character named "x<byte>"
ByteCharTable ==
    [b \in 0..255 |-> IF b \in 32..126 THEN Ascii[b - 31]
                      ELSE IF b = 10 THEN "\n"
                      ELSE "x" \o ToString(b)]

\* the three bytes of U+212A in UTF-8
KelvinUtf8 == <<226, 132, 170>>

\* Buffer.from(s, "utf8")
RECURSIVE utf8Encode(_)
utf8Encode(s) ==
    IF \A i \in 1..Len(s) : s[i] # "KELVIN" THEN [i \in 1..Len(s) |-> CodePoint(s[i])]
    ELSE LET i == Least({j \in 1..Len(s) : s[j] = "KELVIN"})
         IN utf8Encode(SubSeq(s, 1, i - 1)) \o KelvinUtf8
            \o utf8Encode(SubSeq(s, i + 1, Len(s)))

\* buffer.toString("utf8"); U+212A is the only character beyond ASCII the
\* model's files hold, every other byte above 127 decodes to U+FFFD
RECURSIVE utf8Decode(_)
utf8Decode(bytes) ==
    IF \A i \in 1..Len(bytes) : bytes[i] < 128
    THEN [i \in 1..Len(bytes) |-> ByteCharTable[bytes[i]]]
    ELSE LET i == Least({j \in 1..Len(bytes) : bytes[j] >= 128})
             kelvin == i + 2 <= Len(bytes) /\ SubSeq(bytes, i, i + 2) = KelvinUtf8
         IN utf8Decode(SubSeq(bytes, 1, i - 1))
            \o <<IF kelvin THEN "KELVIN" ELSE "REPLACEMENT">>
            \o utf8Decode(SubSeq(bytes, IF kelvin THEN i + 3 ELSE i + 1, Len(bytes)))

\* Buffer.from(s, "latin1") and Buffer.from(s, "ascii"): the low byte of
\* every code unit
latin1Encode(s) == [i \in 1..Len(s) |-> CodePoint(s[i]) % 256]

\* buffer.toString("latin1")
latin1Decode(bytes) == [i \in 1..Len(bytes) |-> ByteCharTable[bytes[i]]]

\* buffer.toString("ascii"): the high bit of every byte is dropped
asciiDecode(bytes) == [i \in 1..Len(bytes) |-> ByteCharTable[bytes[i] % 128]]

\* buffer.subarray(start, end) with 0-based offsets, end exclusive, both
\* clamped to the buffer
subarray(buffer, start, end) ==
    SubSeq(buffer, start + 1, IF end > Len(buffer) THEN Len(buffer) ELSE end)

\* buffer.indexOf(byte, from): 0-based, -1 when absent
indexOfByte(buffer, byte, from) ==
    LET hits == {i \in (from + 1)..Len(buffer) : buffer[i] = byte}
    IN IF hits = {} THEN -1 ELSE Least(hits) - 1

\* buffer.readUInt32BE(offset); a value of 2^30 or more, which no buffer of
\* the model reaches, is read as 2^30
readUInt32BE(buffer, offset) ==
    IF buffer[offset + 1] >= 64 THEN 1073741824
    ELSE ((buffer[offset + 1] * 256 + buffer[offset + 2]) * 256
          + buffer[offset + 3]) * 256 + buffer[offset + 4]

\* buffer.writeUInt32BE(n, 0) on a fresh 4-byte buffer
writeUInt32BE(n) ==
    <<(n \div 16777216) % 256, (n \div 65536) % 256, (n \div 256) % 256, n % 256>>

\* buffer.readUInt16BE(offset)
readUInt16BE(buffer, offset) == buffer[offset + 1] * 256 + buffer[offset + 2]

\* buffer.writeUInt16BE(n, offset): the two bytes written
writeUInt16BE(n) == <<(n \div 256) % 256, n % 256>>

(***************************************************************************)
(* JSON.stringify(value, null, 2) and JSON.parse                           *)
(***************************************************************************)
\* a thrown ArrError (or CliError) with its code
Throw(code) == [ok |-> FALSE, val |-> code]

JsonIndent == <<" ", " ">>

RECURSIVE JsonStringifyIndented(_, _)
JsonStringifyIndented(v, indent) ==
    LET inner == indent \o JsonIndent
        Defined(e) == e.value.kind # "undefined"
        RECURSIVE Elements(_, _)
        Elements(xs, first) ==
            IF xs = <<>> THEN <<>>
            ELSE (IF first THEN <<>> ELSE <<",">>) \o <<"\n">> \o inner
                 \o (IF Head(xs).kind = "undefined" THEN <<"n", "u", "l", "l">>
                     ELSE JsonStringifyIndented(Head(xs), inner))
                 \o Elements(Tail(xs), FALSE)
        RECURSIVE Members(_, _)
        Members(es, first) ==
            IF es = <<>> THEN <<>>
            ELSE (IF first THEN <<>> ELSE <<",">>) \o <<"\n">> \o inner
                 \o QuoteJson(Head(es).key) \o <<":", " ">>
                 \o JsonStringifyIndented(Head(es).value, inner)
                 \o Members(Tail(es), FALSE)
    IN CASE v.kind = "undefined" -> <<"u", "n", "d", "e", "f", "i", "n", "e", "d">>
         [] v.kind = "null" -> <<"n", "u", "l", "l">>
         [] v.kind = "boolean" -> IF v.val THEN <<"t", "r", "u", "e">>
                                  ELSE <<"f", "a", "l", "s", "e">>
         [] v.kind = "number" -> NumberToString(v.val)
         [] v.kind = "string" -> QuoteJson(v.val)
         [] v.kind = "array" ->
                IF v.val = <<>> THEN <<"[", "]">>
                ELSE <<"[">> \o Elements(v.val, TRUE) \o <<"\n">> \o indent \o <<"]">>
         [] v.kind = "object" ->
                IF SelectSeq(v.val, Defined) = <<>> THEN <<"{", "}">>
                ELSE <<"{">> \o Members(SelectSeq(v.val, Defined), TRUE)
                     \o <<"\n">> \o indent \o <<"}">>

\* JSON white space: space, line feed, tab and carriage return
JsonWhiteSpace == {" ", "\n", "x9", "x13"}

RECURSIVE SkipWhiteSpace(_, _)
SkipWhiteSpace(text, pos) ==
    IF pos <= Len(text) /\ text[pos] \in JsonWhiteSpace
    THEN SkipWhiteSpace(text, pos + 1)
    ELSE pos

\* a value parsed up to (not including) position pos, or a SyntaxError
Parsed(v, pos) == [ok |-> TRUE, val |-> v, pos |-> pos]

SyntaxError == [ok |-> FALSE, val |-> JsUndefined, pos |-> 0]

HexDigits ==
    <<"0", "1", "2", "3", "4", "5", "6", "7", "8", "9", "a", "b", "c", "d", "e", "f">>

IsHexDigit(c) == c \in DigitSet \cup {"a", "b", "c", "d", "e", "f", "A", "B", "C", "D", "E", "F"}

HexValue(c) == IndexOf(HexDigits, ToLower(c)) - 1

\* the character of a \uXXXX escape
CharOfCodeUnit(n) ==
    IF n < 256 THEN ByteCharTable[n]
    ELSE IF n = 8490 THEN "KELVIN"
    ELSE "u" \o ToString(n)

\* a character that ends the plain run of a JSON string: the closing quote,
\* a backslash, or a control character (which JSON forbids unescaped)
PlainRunEnds == {"\"", "\\"} \cup {ByteCharTable[b] : b \in 0..31}

EndsPlainRun(c) == c \in PlainRunEnds

\* the string whose opening quote is at position pos - 1
RECURSIVE ParseJsonString(_, _, _)
ParseJsonString(text, pos, sofar) ==
    LET i == CHOOSE i \in pos..Len(text) :
                 EndsPlainRun(text[i]) /\ \A j \in pos..(i - 1) : ~EndsPlainRun(text[j])
        run == sofar \o SubSeq(text, pos, i - 1)
    IN IF \A j \in pos..Len(text) : ~EndsPlainRun(text[j]) THEN SyntaxError
       ELSE IF text[i] = "\"" THEN Parsed(JsStr(run), i + 1)
       ELSE IF text[i] # "\\" \/ i = Len(text) THEN SyntaxError
       ELSE LET c == text[i + 1]
            IN CASE c \in {"\"", "\\", "/"} ->
                        ParseJsonString(text, i + 2, Append(run, c))
                 [] c = "n" -> ParseJsonString(text, i + 2, Append(run, "\n"))
                 [] c = "b" -> ParseJsonString(text, i + 2, Append(run, "x8"))
                 [] c = "f" -> ParseJsonString(text, i + 2, Append(run, "x12"))
                 [] c = "r" -> ParseJsonString(text, i + 2, Append(run, "x13"))
                 [] c = "t" -> ParseJsonString(text, i + 2, Append(run, "x9"))
                 [] c = "u" /\ i + 5 <= Len(text)
                    /\ (\A k \in 2..5 : IsHexDigit(text[i + k])) ->
                        ParseJsonString(text, i + 6,
                            Append(run, CharOfCodeUnit(
                                ((HexValue(text[i + 2]) * 16 + HexValue(text[i + 3])) * 16
                                 + HexValue(text[i + 4])) * 16 + HexValue(text[i + 5]))))
                 [] OTHER -> SyntaxError

\* the digits from position pos on
RECURSIVE ParseDigits(_, _, _)
ParseDigits(text, pos, n) ==
    IF pos <= Len(text) /\ IsDigit(text[pos])
    THEN ParseDigits(text, pos + 1, n * 10 + DigitValue(text[pos]))
    ELSE [val |-> n, pos |-> pos]

\* a JSON number; the documents of the model hold integers only, a fraction
\* or an exponent is not modelled
ParseJsonNumber(text, pos) ==
    LET negative == text[pos] = "-"
        first == IF negative THEN pos + 1 ELSE pos
        digits == ParseDigits(text, first, 0)
    IN IF first > Len(text) \/ ~IsDigit(text[first]) THEN SyntaxError
       ELSE IF text[first] = "0" /\ digits.pos > first + 1 THEN SyntaxError
       ELSE IF digits.pos <= Len(text) /\ text[digits.pos] \in {".", "e", "E"}
       THEN SyntaxError
       ELSE Parsed(JsNum(IF negative THEN 0 - digits.val ELSE digits.val), digits.pos)

\* the JSON value that starts at or after position start
RECURSIVE ParseJsonValue(_, _)
ParseJsonValue(text, start) ==
    LET pos == SkipWhiteSpace(text, start)
        Literal(word, v) ==
            IF SubSeq(text, pos, pos + Len(word) - 1) = word
            THEN Parsed(v, pos + Len(word))
            ELSE SyntaxError
        RECURSIVE Elements(_, _)
        Elements(at, xs) ==
            LET e == ParseJsonValue(text, at)
                next == SkipWhiteSpace(text, e.pos)
            IN IF ~e.ok \/ next > Len(text) THEN SyntaxError
               ELSE IF text[next] = "," THEN Elements(next + 1, Append(xs, e.val))
               ELSE IF text[next] = "]" THEN Parsed(JsArr(Append(xs, e.val)), next + 1)
               ELSE SyntaxError
        RECURSIVE Members(_, _)
        Members(at, es) ==
            LET k == SkipWhiteSpace(text, at)
                key == ParseJsonString(text, k + 1, <<>>)
                colon == SkipWhiteSpace(text, key.pos)
                v == ParseJsonValue(text, colon + 1)
                next == SkipWhiteSpace(text, v.pos)
            IN IF k > Len(text) \/ text[k] # "\"" THEN SyntaxError
               ELSE IF ~key.ok THEN SyntaxError
               ELSE IF colon > Len(text) \/ text[colon] # ":" THEN SyntaxError
               ELSE IF ~v.ok \/ next > Len(text) THEN SyntaxError
               ELSE IF text[next] = ","
               THEN Members(next + 1, SetProp(es, key.val.val, v.val))
               ELSE IF text[next] = "}"
               THEN Parsed(JsObj(SetProp(es, key.val.val, v.val)), next + 1)
               ELSE SyntaxError
        afterOpen == SkipWhiteSpace(text, pos + 1)
    IN IF pos > Len(text) THEN SyntaxError
       ELSE CASE text[pos] = "{" ->
                    IF afterOpen <= Len(text) /\ text[afterOpen] = "}"
                    THEN Parsed(JsObj(<<>>), afterOpen + 1)
                    ELSE Members(pos + 1, <<>>)
              [] text[pos] = "[" ->
                    IF afterOpen <= Len(text) /\ text[afterOpen] = "]"
                    THEN Parsed(JsArr(<<>>), afterOpen + 1)
                    ELSE Elements(pos + 1, <<>>)
              [] text[pos] = "\"" -> ParseJsonString(text, pos + 1, <<>>)
              [] text[pos] = "t" -> Literal(<<"t", "r", "u", "e">>, JsBool(TRUE))
              [] text[pos] = "f" -> Literal(<<"f", "a", "l", "s", "e">>, JsBool(FALSE))
              [] text[pos] = "n" -> Literal(<<"n", "u", "l", "l">>, JsNull)
              [] text[pos] = "-" \/ IsDigit(text[pos]) -> ParseJsonNumber(text, pos)
              [] OTHER -> SyntaxError

\* JSON.parse(text): the value, or a thrown SyntaxError
JsonParse(text) ==
    LET Whole(v) ==
            IF v.ok /\ SkipWhiteSpace(text, v.pos) > Len(text)
            THEN Returned(v.val)
            ELSE Throw("SyntaxError")
    IN Whole(ParseJsonValue(text, 1))

(***************************************************************************)
(* signed.ts                                                               *)
(***************************************************************************)
parseSignedAttestationJson_Unchecked(raw) ==
    LET Checked(parsed) ==
            IF ~parsed.ok THEN Throw("malformed_json")
            ELSE Returned(parsed.val)
    IN Checked(JsonParse(raw))

parseSignedAttestationJson(raw) ==
    LET Checked(parsed) ==
            IF ~parsed.ok THEN Throw("malformed_json")
            ELSE IF ~isSignedAttestation(parsed.val) THEN Throw("malformed")
            ELSE Returned(parsed.val)
    IN Checked(JsonParse(raw))

serializeSignedAttestation(signedValue) ==
    JsonStringifyIndented(signedValue, <<>>) \o <<"\n">>

(***************************************************************************)
(* png.ts                                                                  *)
(* A 32-bit word (a CRC) is held as its four bytes, most significant first *)
(***************************************************************************)
PNG_SIGNATURE == <<137, 80, 78, 71, 13, 10, 26, 10>>

ARR_KEYWORD == <<"a", "r", "r", ".", "a", "t", "t", "e", "s", "t", "a", "t", "i", "o", "n">>

\* a ^ b on bytes, bit by bit
RECURSIVE XorBits(_, _)
XorBits(a, b) ==
    IF a = 0 THEN b
    ELSE IF b = 0 THEN a
    ELSE 2 * XorBits(a \div 2, b \div 2) + ((a + b) % 2)

XorTable == [a \in 0..255 |-> [b \in 0..255 |-> XorBits(a, b)]]

\* a ^ b on bytes
XorByte(a, b) == XorTable[a][b]

\* x ^ y on words
XorWord(x, y) == [i \in 1..4 |-> XorByte(x[i], y[i])]

\* x >>> 1
ShiftRight1(x) ==
    <<x[1] \div 2,
      (x[1] % 2) * 128 + x[2] \div 2,
      (x[2] % 2) * 128 + x[3] \div 2,
      (x[3] % 2) * 128 + x[4] \div 2>>

\* x >>> 8
ShiftRight8(x) == <<0, x[1], x[2], x[3]>>

\* 0xedb88320
CrcPolynomial == <<237, 184, 131, 32>>

RECURSIVE CrcRounds(_, _)
CrcRounds(c, k) ==
    IF k = 0 THEN c
    ELSE CrcRounds(IF c[4] % 2 = 1 THEN XorWord(CrcPolynomial, ShiftRight1(c))
                   ELSE ShiftRight1(c),
                   k - 1)

CRC_TABLE == [n \in 0..255 |-> CrcRounds(<<0, 0, 0, n>>, 8)]

\* the loop of crc32 over the bytes lo..hi of the buffer, entered with crc;
\* the range is halved, and crc is evaluated on entry, so that the
\* evaluation stays shallow
RECURSIVE CrcRange(_, _, _, _)
CrcRange(buffer, crc, lo, hi) ==
    IF Len(crc) # 4 \/ lo > hi THEN crc
    ELSE IF lo = hi
    THEN XorWord(CRC_TABLE[XorByte(crc[4], buffer[lo])], ShiftRight8(crc))
    ELSE CrcRange(buffer, CrcRange(buffer, crc, lo, (lo + hi) \div 2),
                  (lo + hi) \div 2 + 1, hi)

crc32(buffer) ==
    XorWord(CrcRange(buffer, <<255, 255, 255, 255>>, 1, Len(buffer)),
            <<255, 255, 255, 255>>)

isPng(buffer) == subarray(buffer, 0, Len(PNG_SIGNATURE)) = PNG_SIGNATURE

IEND == <<"I", "E", "N", "D">>

ITXT == <<"i", "T", "X", "t">>

\* the loop of parseChunks from byte offset `offset` on
RECURSIVE ParseChunksFrom(_, _, _)
ParseChunksFrom(buffer, offset, chunks) ==
    IF offset >= Len(buffer) THEN Returned(chunks)
    ELSE IF offset + 12 > Len(buffer) THEN Throw("invalid_png")
    ELSE LET length == readUInt32BE(buffer, offset)
             type == asciiDecode(subarray(buffer, offset + 4, offset + 8))
             dataStart == offset + 8
             dataEnd == dataStart + length
             chunkEnd == dataEnd + 4
             chunk == [type |-> type,
                       data |-> subarray(buffer, dataStart, dataEnd),
                       raw |-> subarray(buffer, offset, chunkEnd)]
         IN IF chunkEnd > Len(buffer) THEN Throw("invalid_png")
            ELSE IF type = IEND THEN Returned(Append(chunks, chunk))
            ELSE ParseChunksFrom(buffer, chunkEnd, Append(chunks, chunk))

parseChunks(buffer) ==
    IF ~isPng(buffer) THEN Throw("invalid_png")
    ELSE ParseChunksFrom(buffer, Len(PNG_SIGNATURE), <<>>)

parseItxt(chunkData) ==
    LET keywordEnd == indexOfByte(chunkData, 0, 0)
        keyword == latin1Decode(subarray(chunkData, 0, keywordEnd))
        cursor == keywordEnd + 1
        compressionFlag == chunkData[cursor + 1]
        compressionMethod == chunkData[cursor + 2]
        languageTagEnd == indexOfByte(chunkData, 0, cursor + 2)
        translatedKeywordEnd == indexOfByte(chunkData, 0, languageTagEnd + 1)
        text == utf8Decode(subarray(chunkData, translatedKeywordEnd + 1, Len(chunkData)))
    IN IF keywordEnd < 0 THEN Throw("invalid_png")
       ELSE IF cursor + 2 > Len(chunkData) THEN Throw("invalid_png")
       ELSE IF compressionFlag # 0 \/ compressionMethod # 0
       THEN Throw("unsupported_itxt_compression")
       ELSE IF languageTagEnd < 0 THEN Throw("invalid_png")
       ELSE IF translatedKeywordEnd < 0 THEN Throw("invalid_png")
       ELSE Returned([keyword |-> keyword, text |-> text])

encodeItxt(keyword, text) ==
    latin1Encode(keyword) \o <<0, 0, 0, 0, 0>> \o utf8Encode(text)

createChunk(type, data) ==
    writeUInt32BE(Len(data)) \o latin1Encode(type) \o data
    \o crc32(latin1Encode(type) \o data)

\* the loop of extractPngAttestation; null is the JS null
RECURSIVE ExtractFromChunks(_)
ExtractFromChunks(chunks) ==
    LET Inspect(parsed) ==
            IF ~parsed.ok THEN ExtractFromChunks(Tail(chunks))
            ELSE IF parsed.val.keyword = ARR_KEYWORD
            THEN parseSignedAttestationJson(parsed.val.text)
            ELSE ExtractFromChunks(Tail(chunks))
    IN IF chunks = <<>> THEN Returned(JsNull)
       ELSE IF Head(chunks).type # ITXT THEN ExtractFromChunks(Tail(chunks))
       ELSE Inspect(parseItxt(Head(chunks).data))

extractPngAttestation(buffer) ==
    LET Scan(chunks) == IF ~chunks.ok THEN chunks ELSE ExtractFromChunks(chunks.val)
    IN Scan(parseChunks(buffer))

\* the chunks embedPngAttestation leaves out of its output
DropsChunk(chunk) ==
    LET Reserved(parsed) == parsed.ok /\ parsed.val.keyword = ARR_KEYWORD
    IN chunk.type = ITXT /\ Reserved(parseItxt(chunk.data))

\* the loop of embedPngAttestation: the bytes pushed to outChunks and the
\* final value of `inserted`
RECURSIVE EmbedChunks(_, _, _)
EmbedChunks(chunks, arrChunk, inserted) ==
    IF chunks = <<>> THEN [out |-> <<>>, inserted |-> inserted]
    ELSE IF DropsChunk(Head(chunks)) THEN EmbedChunks(Tail(chunks), arrChunk, inserted)
    ELSE LET insert == Head(chunks).type = IEND /\ ~inserted
             Push(rest) ==
                 [out |-> (IF insert THEN arrChunk ELSE <<>>) \o Head(chunks).raw \o rest.out,
                  inserted |-> rest.inserted]
         IN Push(EmbedChunks(Tail(chunks), arrChunk, inserted \/ insert))

embedPngAttestation_NoIendCheck(buffer, signedValue) ==
    LET Finish(loop, arrChunk) ==
            Returned(PNG_SIGNATURE \o loop.out
                     \o (IF loop.inserted THEN <<>> ELSE arrChunk))
        Rebuild(chunks, arrChunk) ==
            Finish(EmbedChunks(IF chunks.ok THEN chunks.val ELSE <<>>, arrChunk, FALSE),
                   arrChunk)
    IN Rebuild(parseChunks(buffer),
               createChunk(ITXT,
                   encodeItxt(ARR_KEYWORD, serializeSignedAttestation(signedValue))))

embedPngAttestation(buffer, signedValue) ==
    LET Finish(loop) ==
            IF ~loop.inserted THEN Throw("invalid_png")
            ELSE Returned(PNG_SIGNATURE \o loop.out)
        Rebuild(chunks, arrChunk) ==
            IF ~chunks.ok THEN chunks
            ELSE Finish(EmbedChunks(chunks.val, arrChunk, FALSE))
    IN Rebuild(parseChunks(buffer),
               createChunk(ITXT,
                   encodeItxt(ARR_KEYWORD, serializeSignedAttestation(signedValue))))

(***************************************************************************)
(* jpeg.ts                                                                 *)
(***************************************************************************)
\* Buffer.from("http://ns.adobe.com/xap/1.0/\0", "ascii")
XMP_IDENTIFIER ==
    latin1Encode(
        <<"h", "t", "t", "p", ":", "/", "/", "n", "s", ".", "a", "d", "o",
          "b", "e", ".", "c", "o", "m", "/", "x", "a", "p", "/", "1", ".",
          "0", "/">>) \o <<0>>

ARR_NAMESPACE ==
    <<"h", "t", "t", "p", ":", "/", "/", "a", "r", "r", ".", "p", "r", "o",
      "t", "o", "c", "o", "l", "/", "1", ".", "0", "/">>

isStandaloneMarker(marker) == marker = 1 \/ marker \in 208..215

isJpeg(buffer) == Len(buffer) >= 4 /\ buffer[1] = 255 /\ buffer[2] = 216

\* while (offset < buffer.length && buffer[offset] === 0xff) offset += 1
RECURSIVE SkipFillBytes(_, _)
SkipFillBytes(buffer, offset) ==
    IF offset < Len(buffer) /\ buffer[offset + 1] = 255
    THEN SkipFillBytes(buffer, offset + 1)
    ELSE offset

\* the loop of splitJpeg from byte offset `offset` on
RECURSIVE SplitJpegFrom(_, _, _)
SplitJpegFrom(buffer, offset, segments) ==
    IF offset >= Len(buffer)
    THEN Returned([soi |-> subarray(buffer, 0, 2), segments |-> segments,
                   tail |-> <<255, 217>>])
    ELSE IF buffer[offset + 1] # 255 THEN Throw("invalid_jpeg")
    ELSE LET markerStart == offset
             markerAt == SkipFillBytes(buffer, offset + 1)
             marker == buffer[markerAt + 1]
             next == markerAt + 1
             segmentLength == readUInt16BE(buffer, next)
             segmentEnd == next + segmentLength
         IN IF markerAt >= Len(buffer) THEN Throw("invalid_jpeg")
            ELSE IF marker = 218 \/ marker = 217
            THEN Returned([soi |-> subarray(buffer, 0, 2), segments |-> segments,
                           tail |-> subarray(buffer, markerStart, Len(buffer))])
            ELSE IF isStandaloneMarker(marker)
            THEN SplitJpegFrom(buffer, next,
                               Append(segments, subarray(buffer, markerStart, next)))
            ELSE IF next + 2 > Len(buffer) THEN Throw("invalid_jpeg")
            ELSE IF segmentLength < 2 THEN Throw("invalid_jpeg")
            ELSE IF segmentEnd > Len(buffer) THEN Throw("invalid_jpeg")
            ELSE SplitJpegFrom(buffer, segmentEnd,
                               Append(segments, subarray(buffer, markerStart, segmentEnd)))

splitJpeg(buffer) ==
    IF ~isJpeg(buffer) THEN Throw("invalid_jpeg")
    ELSE SplitJpegFrom(buffer, 2, <<>>)

XmlQuot == <<"&", "q", "u", "o", "t", ";">>

XmlApos == <<"&", "a", "p", "o", "s", ";">>

XmlGt == <<"&", "g", "t", ";">>

XmlLt == <<"&", "l", "t", ";">>

XmlAmp == <<"&", "a", "m", "p", ";">>

decodeXmlEntities(value) ==
    replaceAll(replaceAll(replaceAll(replaceAll(replaceAll(value,
        XmlQuot, <<"\"">>), XmlApos, <<"'">>), XmlGt, <<">">>), XmlLt, <<"<">>),
        XmlAmp, <<"&">>)

escapeXml_AmpersandLast(value) ==
    replaceAll(replaceAll(replaceAll(replaceAll(replaceAll(value,
        <<"<">>, XmlLt), <<">">>, XmlGt), <<"\"">>, XmlQuot), <<"'">>, XmlApos),
        <<"&">>, XmlAmp)

escapeXml(value) ==
    replaceAll(replaceAll(replaceAll(replaceAll(replaceAll(value,
        <<"&">>, XmlAmp), <<"<">>, XmlLt), <<">">>, XmlGt), <<"\"">>, XmlQuot),
        <<"'">>, XmlApos)

ArrOpenTag ==
    <<"<", "a", "r", "r", ":", "a", "t", "t", "e", "s", "t", "a", "t", "i",
      "o", "n", ">">>

ArrCloseTag ==
    <<"<", "/", "a", "r", "r", ":", "a", "t", "t", "e", "s", "t", "a", "t",
      "i", "o", "n", ">">>

\* xml.match(/<arr:attestation>([\s\S]*?)<\/arr:attestation>/): the text of
\* the group, or no match
matchArrAttestation(xml) ==
    LET opens == Occurrences(xml, ArrOpenTag)
        from == Least(opens) + Len(ArrOpenTag)
        closes == {i \in Occurrences(xml, ArrCloseTag) : i >= from}
    IN IF opens = {} \/ closes = {} THEN [matched |-> FALSE, group |-> <<>>]
       ELSE [matched |-> TRUE, group |-> SubSeq(xml, from, Least(closes) - 1)]

extractArrAttestationFromXml(xml) ==
    LET Parse(match) ==
            IF ~match.matched THEN Returned(JsNull)
            ELSE parseSignedAttestationJson(decodeXmlEntities(trim(match.group)))
    IN Parse(matchArrAttestation(xml))

isApp1Segment(segment) ==
    Len(segment) >= 4 /\ segment[1] = 255 /\ segment[2] = 225

parseApp1Payload(segment) == subarray(segment, 4, Len(segment))

\* the XML text of an APP1 payload that starts with the XMP identifier
XmlOfPayload(payload) ==
    utf8Decode(subarray(payload, Len(XMP_IDENTIFIER), Len(payload)))

isArrXmpSegment(segment) ==
    LET Named(xml) == includes(xml, ARR_NAMESPACE) /\ includes(xml, ArrOpenTag)
        Xmp(payload) ==
            IF subarray(payload, 0, Len(XMP_IDENTIFIER)) # XMP_IDENTIFIER THEN FALSE
            ELSE Named(XmlOfPayload(payload))
    IN IF ~isApp1Segment(segment) THEN FALSE
       ELSE Xmp(parseApp1Payload(segment))

buildArrXmpXml(signedValue) ==
    <<"<", "x", ":", "x", "m", "p", "m", "e", "t", "a", " ", "x", "m", "l",
      "n", "s", ":", "x", "=", "\"", "a", "d", "o", "b", "e", ":", "n", "s",
      ":", "m", "e", "t", "a", "/", "\"", ">">>
    \o <<"<", "r", "d", "f", ":", "R", "D", "F", " ", "x", "m", "l", "n", "s",
         ":", "r", "d", "f", "=", "\"", "h", "t", "t", "p", ":", "/", "/",
         "w", "w", "w", ".", "w", "3", ".", "o", "r", "g", "/", "1", "9", "9",
         "9", "/", "0", "2", "/", "2", "2", "-", "r", "d", "f", "-", "s", "y",
         "n", "t", "a", "x", "-", "n", "s", "#", "\"", ">">>
    \o <<"<", "r", "d", "f", ":", "D", "e", "s", "c", "r", "i", "p", "t", "i",
         "o", "n", " ", "r", "d", "f", ":", "a", "b", "o", "u", "t", "=",
         "\"", "\"", " ", "x", "m", "l", "n", "s", ":", "a", "r", "r", "=",
         "\"">>
    \o ARR_NAMESPACE \o <<"\"", ">">>
    \o ArrOpenTag \o escapeXml(serializeSignedAttestation(signedValue)) \o ArrCloseTag
    \o <<"<", "/", "r", "d", "f", ":", "D", "e", "s", "c", "r", "i", "p", "t",
         "i", "o", "n", ">">>
    \o <<"<", "/", "r", "d", "f", ":", "R", "D", "F", ">">>
    \o <<"<", "/", "x", ":", "x", "m", "p", "m", "e", "t", "a", ">">>

\* 0xffff, the largest value of the two-byte length field of a segment
MaxSegmentLength == 65535

createArrApp1Segment_LengthOfPayload(signedValue) ==
    LET Segment(payload, segmentLength) ==
            IF segmentLength > MaxSegmentLength THEN Throw("xmp_too_large")
            ELSE Returned(<<255, 225>> \o writeUInt16BE(segmentLength) \o payload)
        Measure(payload) == Segment(payload, Len(payload))
    IN Measure(XMP_IDENTIFIER \o utf8Encode(buildArrXmpXml(signedValue)))

createArrApp1Segment(signedValue) ==
    LET Segment(payload, segmentLength) ==
            IF segmentLength > MaxSegmentLength THEN Throw("xmp_too_large")
            ELSE Returned(<<255, 225>> \o writeUInt16BE(segmentLength) \o payload)
        Measure(payload) == Segment(payload, Len(payload) + 2)
    IN Measure(XMP_IDENTIFIER \o utf8Encode(buildArrXmpXml(signedValue)))

\* the loop of extractJpegAttestation
RECURSIVE ExtractFromSegments(_)
ExtractFromSegments(segments) ==
    IF segments = <<>> THEN Returned(JsNull)
    ELSE IF ~isArrXmpSegment(Head(segments)) THEN ExtractFromSegments(Tail(segments))
    ELSE LET Found(extracted) ==
                 IF ~extracted.ok THEN extracted
                 ELSE IF extracted.val # JsNull THEN extracted
                 ELSE ExtractFromSegments(Tail(segments))
         IN Found(extractArrAttestationFromXml(
                      XmlOfPayload(parseApp1Payload(Head(segments)))))

extractJpegAttestation(buffer) ==
    LET Scan(split) == IF ~split.ok THEN split ELSE ExtractFromSegments(split.val.segments)
    IN Scan(splitJpeg(buffer))

\* Buffer.concat of a list of buffers
RECURSIVE concat(_)
concat(buffers) ==
    IF buffers = <<>> THEN <<>> ELSE Head(buffers) \o concat(Tail(buffers))

\* segments.filter((segment) => !isArrXmpSegment(segment))
NotArrXmpSegment(segment) == ~isArrXmpSegment(segment)

embedJpegAttestation(buffer, signedValue) ==
    LET Join(split, arrSegment) ==
            IF ~arrSegment.ok THEN arrSegment
            ELSE Returned(split.val.soi
                          \o concat(SelectSeq(split.val.segments, NotArrXmpSegment))
                          \o arrSegment.val \o split.val.tail)
        Rebuild(split) ==
            IF ~split.ok THEN split
            ELSE Join(split, createArrApp1Segment(signedValue))
    IN Rebuild(splitJpeg(buffer))

(***************************************************************************)
(* adapters.ts                                                             *)
(***************************************************************************)
detectFileFormat(buffer) ==
    IF isPng(buffer) THEN "png"
    ELSE IF isJpeg(buffer) THEN "jpeg"
    ELSE "unknown"

\* null, or { format, signed }
extractAttestationFromMetadata(buffer) ==
    LET Tagged(format, extracted) ==
            IF ~extracted.ok \/ extracted.val = JsNull THEN extracted
            ELSE Returned([format |-> format, signed |-> extracted.val])
    IN IF isPng(buffer) THEN Tagged("png", extractPngAttestation(buffer))
       ELSE IF isJpeg(buffer) THEN Tagged("jpeg", extractJpegAttestation(buffer))
       ELSE Returned(JsNull)

embedAttestationInMetadata(buffer, signedValue, format) ==
    IF format = "png" THEN embedPngAttestation(buffer, signedValue)
    ELSE IF format = "jpeg" THEN embedJpegAttestation(buffer, signedValue)
    ELSE Throw("unsupported_format")

(***************************************************************************)
(* Embedding into and extracting from file metadata                        *)
(***************************************************************************)
\* how many times a file is embedded into in one behaviour
MaxEmbeds == 2

\* the smallest signed attestation the validator accepts
MinimalSigned ==
    ObjectOf(<<Entry(K_attestation,
                     ObjectOf(<<Entry(K_version, JsStr(SUPPORTED_VERSION)),
                                Entry(K_id, JsStr(<<"t", "1">>)),
                                Entry(K_created, JsStr(ExpiryDay)),
                                Entry(K_creator, JsStr(HashCreator))>>)),
               Entry(K_signature, JsStr(ED25519_PREFIX \o <<"A", "A", "A", "A">>))>>)

\* text that exercises every escape of JSON and XML
TrickyText ==
    <<"a", "<", "b", ">", "&", "\"", "q", "'", " ", "\\", " ", "&", "a", "m", "p", ";", " ", "\n", "KELVIN", "<", "/", "a", "r", "r", ":", "a", "t", "t", "e", "s", "t", "a", "t", "i", "o", "n", ">">>

\* a signed attestation with every field, markup and escapes in its strings
\* and nested extensions
FullSigned ==
    ObjectOf(<<Entry(K_attestation,
                     JsObj(AssignAll(FullAttestation.val,
                        <<Entry(K_intent, JsStr(TrickyText)),
                          Entry(K_extensions,
                                ObjectOf(<<Entry(<<"n">>, JsNum(0)),
                                           Entry(<<"l", "i", "s", "t">>,
                                                 JsArr(<<JsNull, JsBool(FALSE), JsArr(<<>>),
                                                         JsObj(<<>>), JsNum(12)>>)),
                                           Entry(<<"&", "l", "t", ";">>,
                                                 ObjectOf(<<Entry(<<"\"">>,
                                                            JsStr(<<"\n">>))>>))>>))>>))),
               Entry(K_signature, JsStr(ED25519_PREFIX \o <<"B", "_", "-", "9">>))>>)

\* a second minimal attestation, told apart by its id
OtherSigned ==
    JsObj(SetProp(MinimalSigned.val, K_attestation,
        JsObj(SetProp(Get(MinimalSigned, K_attestation).val, K_id, JsStr(<<"t", "2">>)))))

SignedSamples == {MinimalSigned, FullSigned, OtherSigned}

IhdrChunk == createChunk(<<"I", "H", "D", "R">>, <<0, 0, 0, 1, 0, 0, 0, 1, 8, 0, 0, 0, 0>>)

IdatChunk == createChunk(<<"I", "D", "A", "T">>, <<120, 1>>)

IendChunk == createChunk(IEND, <<>>)

\* an iTXt chunk with the given keyword, compression flag and text
ItxtChunk(keyword, compressionFlag, text) ==
    createChunk(ITXT, latin1Encode(keyword) \o <<0, compressionFlag, 0, 0, 0>>
                      \o utf8Encode(text))

NotJson == <<"n", "o", "t", " ", "j", "s", "o", "n">>

\* JSON that is no signed attestation
NotSignedJson == <<"{", "\"", "a", "t", "t", "e", "s", "t", "a", "t", "i", "o", "n", "\"", ":", " ", "{", "\"", "v", "e", "r", "s", "i", "o", "n", "\"", ":", " ", "1", "}", ",", " ", "\"", "s", "i", "g", "n", "a", "t", "u", "r", "e", "\"", ":", " ", "\"", "s", "\"", "}">>

PngOf(chunks) == PNG_SIGNATURE \o concat(chunks)

PlainPng == PngOf(<<IhdrChunk, IdatChunk, IendChunk>>)

\* PNG files whose chunk stream ends with IEND
ParseablePngFiles ==
    {PlainPng,
     PngOf(<<IhdrChunk, ItxtChunk(<<"C", "o", "m", "m", "e", "n", "t">>, 0, <<"h", "i">>),
             IendChunk>>),
     PngOf(<<IhdrChunk, ItxtChunk(ARR_KEYWORD, 1, <<"x", "y">>), IdatChunk, IendChunk>>),
     PngOf(<<IhdrChunk, createChunk(ITXT, latin1Encode(ARR_KEYWORD) \o <<0>>), IendChunk>>),
     PngOf(<<IhdrChunk, ItxtChunk(ARR_KEYWORD, 0, NotJson), IendChunk>>),
     PngOf(<<IhdrChunk, ItxtChunk(ARR_KEYWORD, 0, NotSignedJson), IendChunk>>),
     PngOf(<<IhdrChunk,
             ItxtChunk(ARR_KEYWORD, 0, serializeSignedAttestation(OtherSigned)),
             IdatChunk,
             ItxtChunk(ARR_KEYWORD, 0, serializeSignedAttestation(MinimalSigned)),
             IendChunk>>),
     PlainPng \o <<7, 7, 7>>,
     PngOf(<<IhdrChunk, IendChunk, IdatChunk, IendChunk>>)}

\* PNG files with a truncated chunk, a chunk running past the end of the
\* file, or no IEND chunk
BrokenPngFiles ==
    {SubSeq(PlainPng, 1, Len(PlainPng) - 3),
     PngOf(<<IhdrChunk>>) \o <<0, 0, 0, 100>> \o latin1Encode(<<"I", "D", "A", "T">>)
        \o <<1, 2, 3, 4, 5, 6>>,
     PngOf(<<IhdrChunk>>) \o <<255, 255, 255, 255>> \o latin1Encode(IEND)
        \o <<174, 66, 96, 130>>,
     PngOf(<<IhdrChunk, IdatChunk>>),
     PNG_SIGNATURE,
     PngOf(<<IhdrChunk, IdatChunk>>) \o <<0, 0, 0>>}

App0Segment == <<255, 224, 0, 4, 74, 70>>

\* start of scan, entropy-coded data and end of image
ScanTail == <<255, 218, 0, 2, 1, 2, 255, 217>>

JpegOf(segments, tail) == <<255, 216>> \o concat(segments) \o tail

PlainJpeg == JpegOf(<<App0Segment>>, ScanTail)

\* an APP1 segment holding an XMP packet
XmpSegment(xml) ==
    <<255, 225>> \o writeUInt16BE(Len(XMP_IDENTIFIER \o utf8Encode(xml)) + 2)
    \o XMP_IDENTIFIER \o utf8Encode(xml)

\* an XMP packet that declares the ARR namespace around the given text
ArrPacket(inner) ==
    <<"<", "x", " ", "x", "m", "l", "n", "s", ":", "a", "r", "r", "=", "\"">>
    \o ARR_NAMESPACE \o <<"\"", ">">> \o inner \o <<"<", "/", "x", ">">>

\* JPEG files that splitJpeg accepts
ParseableJpegFiles ==
    {PlainJpeg,
     JpegOf(<<App0Segment>>, <<>>),
     JpegOf(<<>>, <<255, 217>>),
     JpegOf(<<<<255, 208>>, App0Segment, <<255, 225, 0, 6, 69, 120, 105, 102>>>>, ScanTail),
     JpegOf(<<<<255>> \o XmpSegment(buildArrXmpXml(OtherSigned))>>, ScanTail),
     JpegOf(<<XmpSegment(ArrPacket(ArrOpenTag \o NotJson \o ArrCloseTag))>>, ScanTail),
     JpegOf(<<XmpSegment(ArrPacket(ArrOpenTag \o escapeXml(NotSignedJson) \o ArrCloseTag)),
              App0Segment>>, ScanTail),
     JpegOf(<<XmpSegment(ArrPacket(ArrOpenTag \o NotJson)),
              XmpSegment(buildArrXmpXml(OtherSigned))>>, ScanTail),
     JpegOf(<<XmpSegment(buildArrXmpXml(OtherSigned)), App0Segment,
              XmpSegment(buildArrXmpXml(MinimalSigned))>>, ScanTail)}

\* JPEG files that splitJpeg rejects
BrokenJpegFiles ==
    {<<255, 216, 0, 0>>,
     <<255, 216, 255, 224, 0, 50, 1>>,
     <<255, 216, 255, 224, 0, 1, 0>>,
     <<255, 216, 255, 255>>,
     <<255, 216, 255, 224, 0>>}

\* files that are neither PNG nor JPEG
UnknownFiles ==
    {<<>>, latin1Encode(NotJson), utf8Encode(serializeSignedAttestation(MinimalSigned))}

EmbedInputs ==
    {[given |-> TRUE, buffer |-> f, embeds |-> 0, last |-> JsUndefined] :
        f \in ParseablePngFiles \cup BrokenPngFiles \cup ParseableJpegFiles
              \cup BrokenJpegFiles \cup UnknownFiles}

InitEmbed ==
    /\ signatures = <<>>
    /\ draft = BuildAttestation(SUPPORTED_VERSION, HashCreator, <<>>)
    /\ signed = JsUndefined
    /\ original = JsUndefined
    /\ call = NoCall
    /\ input \in EmbedInputs
    /\ output = NoOutput
    /\ files = NoFiles
    /\ ServiceOff

\* embedAttestationInMetadata(buffer, signedValue) with the default format,
\* detectFileFormat(buffer); the caller keeps the returned buffer as the file
Embed(signedValue, format) ==
    /\ input.embeds < MaxEmbeds
    /\ LET Keep(result) ==
               /\ output' = [made |-> TRUE, op |-> "embed", before |-> input.buffer,
                             embeds |-> input.embeds, signed |-> signedValue,
                             format |-> format, result |-> result]
               /\ input' = IF result.ok
                           THEN [given |-> TRUE, buffer |-> result.val,
                                 embeds |-> input.embeds + 1, last |-> signedValue]
                           ELSE input
       IN Keep(embedAttestationInMetadata(input.buffer, signedValue, format))
    /\ UNCHANGED <<verifyVars, files, serviceVars>>

\* extractAttestationFromMetadata(buffer)
Extract ==
    /\ output' = [made |-> TRUE, op |-> "extract", before |-> input.buffer,
                  embeds |-> input.embeds, signed |-> input.last,
                  format |-> detectFileFormat(input.buffer),
                  result |-> extractAttestationFromMetadata(input.buffer)]
    /\ UNCHANGED <<verifyVars, input, files, serviceVars>>

NextEmbed ==
    \/ \E signedValue \in SignedSamples :
            Embed(signedValue, detectFileFormat(input.buffer))
    \/ Extract

SpecEmbed == InitEmbed /\ [][NextEmbed]_vars

\* n copies of a text
RECURSIVE Repeat(_, _)
Repeat(text, n) ==
    IF n = 0 THEN <<>>
    ELSE LET half == Repeat(text, n \div 2)
         IN half \o half \o (IF n % 2 = 1 THEN text ELSE <<>>)

\* a signed attestation whose intent is n characters long
SizedSigned(n) ==
    ObjectOf(<<Entry(K_attestation,
                     ObjectOf(<<Entry(K_version, JsStr(SUPPORTED_VERSION)),
                                Entry(K_id, JsStr(<<"t", "1">>)),
                                Entry(K_created, JsStr(ExpiryDay)),
                                Entry(K_creator, JsStr(HashCreator)),
                                Entry(K_intent, JsStr(Repeat(<<"x">>, n)))>>)),
               Entry(K_signature, JsStr(ED25519_PREFIX \o <<"A", "A", "A", "A">>))>>)

\* how far the intent lengths of the samples reach from zero and to both
\* sides of the longest intent that fits
SizeMargin == 2

\* the longest intent of a sized attestation whose segment still fits
LargestIntent ==
    MaxSegmentLength - 2
        - Len(XMP_IDENTIFIER \o utf8Encode(buildArrXmpXml(SizedSigned(0))))

IntentSizes ==
    (0..SizeMargin) \cup {LargestIntent + d : d \in (0 - SizeMargin)..SizeMargin}

JpegLimitInputs ==
    {[given |-> TRUE, buffer |-> f, embeds |-> 0, last |-> JsUndefined] :
        f \in ParseableJpegFiles \cup BrokenJpegFiles}

InitJpegLimit ==
    /\ signatures = <<>>
    /\ draft = BuildAttestation(SUPPORTED_VERSION, HashCreator, <<>>)
    /\ signed = JsUndefined
    /\ original = JsUndefined
    /\ call = NoCall
    /\ input \in JpegLimitInputs
    /\ output = NoOutput
    /\ files = NoFiles
    /\ ServiceOff

\* embedJpegAttestation(buffer, signed) with an attestation of the given size
EmbedSized(n) ==
    /\ output' = [made |-> TRUE, op |-> "embedJpeg", before |-> input.buffer,
                  size |-> n,
                  result |-> embedJpegAttestation(input.buffer, SizedSigned(n))]
    /\ UNCHANGED <<verifyVars, input, files, serviceVars>>

NextJpegLimit == \E n \in IntentSizes : EmbedSized(n)

SpecJpegLimit == InitJpegLimit /\ [][NextJpegLimit]_vars

(***************************************************************************)
(* sidecar.ts and the file system                                          *)
(***************************************************************************)
\* fs.readFile: the bytes of the file, or the ENOENT error of a missing file
readFile(fs, path) ==
    IF path \in DOMAIN fs THEN Returned(fs[path]) ELSE Throw("ENOENT")

\* fs.writeFile: the file system with the file created or replaced
writeFile(fs, path, data) ==
    [p \in DOMAIN fs \cup {path} |-> IF p = path THEN data ELSE fs[p]]

\* an optional path argument: <<>> when it is not given, <<path>> otherwise
NoPath == <<>>

ArrExtension == <<".", "a", "r", "r">>

sidecarPathFor_AlwaysAppend(originalPath) == originalPath \o ArrExtension

sidecarPathFor(originalPath) ==
    IF EndsWith(originalPath, ArrExtension) THEN originalPath
    ELSE originalPath \o ArrExtension

\* the file system after the write and the path returned
writeSidecar(fs, originalPath, signedValue, outPath) ==
    LET WriteTo(targetPath) ==
            [files |-> writeFile(fs, targetPath,
                                 utf8Encode(serializeSignedAttestation(signedValue))),
             result |-> Returned(targetPath)]
    IN WriteTo(IF outPath # NoPath THEN outPath[1] ELSE sidecarPathFor(originalPath))

readSidecar(fs, pathOrOriginal) ==
    LET Checked(targetPath, parsed) ==
            IF ~parsed.ok THEN parsed
            ELSE Returned([path |-> targetPath, signed |-> parsed.val])
        Read(targetPath, raw) ==
            IF ~raw.ok THEN raw
            ELSE Checked(targetPath, parseSignedAttestationJson(utf8Decode(raw.val)))
        ReadAt(targetPath) == Read(targetPath, readFile(fs, targetPath))
    IN ReadAt(sidecarPathFor(pathOrOriginal))

(***************************************************************************)
(* The command line's attest and verify, the MCP server's publish          *)
(***************************************************************************)
\* path.parse of a path without directory part: the extension starts at the
\* last dot that is not the first character
ExtensionStart(path) ==
    LET dots == {i \in 2..Len(path) : path[i] = "."}
    IN IF dots = {} THEN Len(path) + 1
       ELSE CHOOSE i \in dots : \A j \in dots : j <= i

AttestedSuffix == <<".", "a", "t", "t", "e", "s", "t", "e", "d">>

defaultMetadataOutputPath(inputPath) ==
    LET name == SubSeq(inputPath, 1, ExtensionStart(inputPath) - 1)
        ext == SubSeq(inputPath, ExtensionStart(inputPath), Len(inputPath))
    IN IF ext = <<>> THEN name \o AttestedSuffix
       ELSE name \o AttestedSuffix \o ext

\* the outcome of attestSigned and publishSignedAttestation
Outcome(mode, outputPath, format) ==
    Returned([mode |-> mode, outputPath |-> outputPath, format |-> format])

\* no paths given
NoPaths == [metadata |-> NoPath, sidecar |-> NoPath]

attestSigned_SidecarForUnknown(fs, inputPath, signedValue, modeOption, paths) ==
    LET AsSidecar(sidecar) ==
            [files |-> sidecar.files,
             result |-> Outcome("sidecar", sidecar.result.val, "undefined")]
        WriteTo(targetPath, embedded, detectedFormat) ==
            IF ~embedded.ok THEN [files |-> fs, result |-> embedded]
            ELSE [files |-> writeFile(fs, targetPath, embedded.val),
                  result |-> Outcome("metadata", targetPath, detectedFormat)]
        Dispatch(bytes, detectedFormat) ==
            IF detectedFormat = "unknown"
            THEN AsSidecar(writeSidecar(fs, inputPath, signedValue, paths.sidecar))
            ELSE WriteTo(IF paths.metadata # NoPath THEN paths.metadata[1]
                         ELSE defaultMetadataOutputPath(inputPath),
                         embedAttestationInMetadata(bytes.val, signedValue, detectedFormat),
                         detectedFormat)
        Read(bytes) ==
            IF ~bytes.ok THEN [files |-> fs, result |-> bytes]
            ELSE Dispatch(bytes, detectFileFormat(bytes.val))
    IN IF modeOption = "sidecar"
       THEN AsSidecar(writeSidecar(fs, inputPath, signedValue, paths.sidecar))
       ELSE Read(readFile(fs, inputPath))

\* the file system after the call and what the call returns or throws
attestSigned(fs, inputPath, signedValue, modeOption, paths) ==
    LET AsSidecar(sidecar) ==
            [files |-> sidecar.files,
             result |-> Outcome("sidecar", sidecar.result.val, "undefined")]
        WriteTo(targetPath, embedded, detectedFormat) ==
            IF ~embedded.ok THEN [files |-> fs, result |-> embedded]
            ELSE [files |-> writeFile(fs, targetPath, embedded.val),
                  result |-> Outcome("metadata", targetPath, detectedFormat)]
        Dispatch(bytes, detectedFormat) ==
            IF modeOption = "metadata" /\ detectedFormat = "unknown"
            THEN [files |-> fs, result |-> Throw("unsupported_format")]
            ELSE IF detectedFormat = "unknown"
            THEN AsSidecar(writeSidecar(fs, inputPath, signedValue, paths.sidecar))
            ELSE WriteTo(IF paths.metadata # NoPath THEN paths.metadata[1]
                         ELSE defaultMetadataOutputPath(inputPath),
                         embedAttestationInMetadata(bytes.val, signedValue, detectedFormat),
                         detectedFormat)
        Read(bytes) ==
            IF ~bytes.ok THEN [files |-> fs, result |-> bytes]
            ELSE Dispatch(bytes, detectFileFormat(bytes.val))
    IN IF modeOption = "sidecar"
       THEN AsSidecar(writeSidecar(fs, inputPath, signedValue, paths.sidecar))
       ELSE Read(readFile(fs, inputPath))

\* the error thrown as a plain Error, which carries no code
PlainError == "Error"

publishSignedAttestation_WriteBeforeEmbed(fs, signedValue, filePath, mode, outputPath) ==
    LET AsSidecar(written) ==
            [files |-> written.files,
             result |-> Outcome("sidecar", written.result.val, "undefined")]
        WriteTo(targetPath, bytes, embedded, detected) ==
            IF ~embedded.ok
            THEN [files |-> writeFile(fs, targetPath, bytes.val), result |-> embedded]
            ELSE [files |-> writeFile(fs, targetPath, embedded.val),
                  result |-> Outcome("metadata", targetPath, detected)]
        Dispatch(bytes, detected) ==
            IF mode = "metadata" /\ detected = "unknown"
            THEN [files |-> fs, result |-> Throw(PlainError)]
            ELSE IF detected = "unknown"
            THEN AsSidecar(writeSidecar(fs, filePath, signedValue, outputPath))
            ELSE WriteTo(IF outputPath # NoPath THEN outputPath[1]
                         ELSE defaultMetadataOutputPath(filePath),
                         bytes,
                         embedAttestationInMetadata(bytes.val, signedValue, detected),
                         detected)
        Read(bytes) ==
            IF ~bytes.ok THEN [files |-> fs, result |-> bytes]
            ELSE Dispatch(bytes, detectFileFormat(bytes.val))
    IN IF mode = "sidecar"
       THEN AsSidecar(writeSidecar(fs, filePath, signedValue, outputPath))
       ELSE Read(readFile(fs, filePath))

publishSignedAttestation(fs, signedValue, filePath, mode, outputPath) ==
    LET AsSidecar(written) ==
            [files |-> written.files,
             result |-> Outcome("sidecar", written.result.val, "undefined")]
        WriteTo(targetPath, bytes, embedded, detected) ==
            IF ~embedded.ok
            THEN [files |-> fs, result |-> embedded]
            ELSE [files |-> writeFile(fs, targetPath, embedded.val),
                  result |-> Outcome("metadata", targetPath, detected)]
        Dispatch(bytes, detected) ==
            IF mode = "metadata" /\ detected = "unknown"
            THEN [files |-> fs, result |-> Throw(PlainError)]
            ELSE IF detected = "unknown"
            THEN AsSidecar(writeSidecar(fs, filePath, signedValue, outputPath))
            ELSE WriteTo(IF outputPath # NoPath THEN outputPath[1]
                         ELSE defaultMetadataOutputPath(filePath),
                         bytes,
                         embedAttestationInMetadata(bytes.val, signedValue, detected),
                         detected)
        Read(bytes) ==
            IF ~bytes.ok THEN [files |-> fs, result |-> bytes]
            ELSE Dispatch(bytes, detectFileFormat(bytes.val))
    IN IF mode = "sidecar"
       THEN AsSidecar(writeSidecar(fs, filePath, signedValue, outputPath))
       ELSE Read(readFile(fs, filePath))

\* the attestation the command line finds for a file: the sidecar itself,
\* the file's metadata, or the file's sidecar
loadSignedAttestation(fs, filePath) ==
    LET FromSidecarFile(parsed) ==
            IF ~parsed.ok THEN parsed
            ELSE Returned([signed |-> parsed.val, source |-> "sidecar",
                           filePath |-> filePath, format |-> "undefined"])
        FromSidecar(sidecar) ==
            IF sidecar.ok
            THEN Returned([signed |-> sidecar.val.signed, source |-> "sidecar",
                           filePath |-> sidecar.val.path, format |-> "undefined"])
            ELSE IF sidecar.val = "ENOENT" THEN Throw("attestation_not_found")
            ELSE sidecar
        FromMetadata(metadata) ==
            IF ~metadata.ok THEN metadata
            ELSE IF metadata.val # JsNull
            THEN Returned([signed |-> metadata.val.signed, source |-> "metadata",
                           filePath |-> filePath, format |-> metadata.val.format])
            ELSE FromSidecar(readSidecar(fs, filePath))
        Read(raw) ==
            IF ~raw.ok THEN raw
            ELSE IF EndsWith(filePath, ArrExtension)
            THEN FromSidecarFile(parseSignedAttestationJson(utf8Decode(raw.val)))
            ELSE FromMetadata(extractAttestationFromMetadata(raw.val))
    IN Read(readFile(fs, filePath))

(***************************************************************************)
(* Attesting, publishing, writing and reading files                        *)
(***************************************************************************)
\* how many writing calls (attest, publish, writeSidecar) one behaviour
\* makes; the last one is remembered
MaxWrites == 1

PngPath == <<"a", ".", "p", "n", "g">>
NoExtensionPath == <<"a">>
JpegPath == <<"b", ".", "j", "p", "g">>
BigJpegPath == <<"b", "i", "g", ".", "j", "p", "g">>
ArrPath == <<"s", ".", "a", "r", "r">>
MetadataOut == <<"o", ".", "b", "i", "n">>
SidecarOut == <<"o", ".", "t", "x", "t">>

OneFile(path, data) == writeFile(NoFiles, path, data)

\* the file systems a behaviour starts from: one artifact, or an artifact
\* and its sidecar
StoreFileSystems ==
    {OneFile(PngPath, PlainPng),
     OneFile(PngPath, PngOf(<<IhdrChunk, ItxtChunk(ARR_KEYWORD, 0, NotJson), IendChunk>>)),
     OneFile(PngPath, PngOf(<<IhdrChunk, ItxtChunk(ARR_KEYWORD, 0, NotSignedJson),
                              IendChunk>>)),
     OneFile(PngPath, PngOf(<<IhdrChunk, IdatChunk>>)),
     OneFile(PngPath, latin1Encode(NotJson)),
     OneFile(NoExtensionPath, PlainPng),
     OneFile(JpegPath, JpegOf(<<XmpSegment(ArrPacket(ArrOpenTag \o NotJson \o ArrCloseTag))>>,
                              ScanTail)),
     OneFile(JpegPath, JpegOf(<<XmpSegment(ArrPacket(ArrOpenTag \o escapeXml(NotSignedJson)
                                                      \o ArrCloseTag)),
                                App0Segment>>, ScanTail)),
     OneFile(JpegPath, <<255, 216, 255, 224, 0, 50, 1>>),
     OneFile(BigJpegPath, PlainJpeg),
     OneFile(ArrPath, utf8Encode(serializeSignedAttestation(FullSigned))),
     OneFile(ArrPath, latin1Encode(NotJson)),
     OneFile(ArrPath, latin1Encode(NotSignedJson)),
     OneFile(ArrPath, PlainPng),
     writeFile(OneFile(PngPath, PlainPng), sidecarPathFor(PngPath),
               latin1Encode(NotSignedJson))}

\* the signed attestations written; the last one is one byte too long for a
\* JPEG segment
StoreSigned == <<MinimalSigned, FullSigned, SizedSigned(LargestIntent + 1)>>

StorageModes == {"auto", "sidecar", "metadata"}

GivenPaths == [metadata |-> <<MetadataOut>>, sidecar |-> <<SidecarOut>>]

InitStore ==
    /\ signatures = <<>>
    /\ draft = BuildAttestation(SUPPORTED_VERSION, HashCreator, <<>>)
    /\ signed = JsUndefined
    /\ original = JsUndefined
    /\ call = NoCall
    /\ input = [given |-> TRUE, writes |-> 0, last |-> NoCall]
    /\ output = NoOutput
    /\ files \in StoreFileSystems
    /\ ServiceOff

\* attestSigned(inputPath, signed, modeOption, paths) of the command line
AttestSigned(inputPath, sample, modeOption, paths) ==
    /\ input.writes < MaxWrites
    /\ LET Keep(outcome) ==
               /\ files' = outcome.files
               /\ output' = [made |-> TRUE, op |-> "attestSigned", path |-> inputPath,
                             sample |-> sample, mode |-> modeOption, paths |-> paths,
                             before |-> files, result |-> outcome.result]
       IN Keep(attestSigned(files, inputPath, StoreSigned[sample], modeOption, paths))
    /\ input' = [given |-> TRUE, writes |-> input.writes + 1,
                 last |-> [made |-> TRUE, op |-> "attestSigned", path |-> inputPath,
                           sample |-> sample, paths |-> paths]]
    /\ UNCHANGED <<verifyVars, serviceVars>>

\* publishSignedAttestation(signed, filePath, mode, outputPath) of the MCP server
PublishSignedAttestation(sample, filePath, mode, outputPath) ==
    /\ input.writes < MaxWrites
    /\ LET Keep(outcome) ==
               /\ files' = outcome.files
               /\ output' = [made |-> TRUE, op |-> "publishSignedAttestation",
                             path |-> filePath, sample |-> sample, mode |-> mode,
                             paths |-> [metadata |-> outputPath, sidecar |-> outputPath],
                             before |-> files, result |-> outcome.result]
       IN Keep(publishSignedAttestation(files, StoreSigned[sample], filePath, mode,
                                        outputPath))
    /\ input' = [given |-> TRUE, writes |-> input.writes + 1,
                 last |-> [made |-> TRUE, op |-> "publishSignedAttestation", path |-> filePath,
                           sample |-> sample, paths |-> [metadata |-> outputPath, sidecar |-> outputPath]]]
    /\ UNCHANGED <<verifyVars, serviceVars>>

\* writeSidecar(originalPath, signed, outPath)
WriteSidecar(originalPath, sample, outPath) ==
    /\ input.writes < MaxWrites
    /\ LET Keep(outcome) ==
               /\ files' = outcome.files
               /\ output' = [made |-> TRUE, op |-> "writeSidecar", path |-> originalPath,
                             sample |-> sample, mode |-> "sidecar",
                             paths |-> [metadata |-> NoPath, sidecar |-> outPath],
                             before |-> files, result |-> outcome.result]
       IN Keep(writeSidecar(files, originalPath, StoreSigned[sample], outPath))
    /\ input' = [given |-> TRUE, writes |-> input.writes + 1,
                 last |-> [made |-> TRUE, op |-> "writeSidecar", path |-> originalPath,
                           sample |-> sample, paths |-> [metadata |-> NoPath, sidecar |-> outPath]]]
    /\ UNCHANGED <<verifyVars, serviceVars>>

\* readSidecar(pathOrOriginal)
ReadSidecar(pathOrOriginal) ==
    /\ output' = [made |-> TRUE, op |-> "readSidecar", path |-> pathOrOriginal,
                  before |-> files, result |-> readSidecar(files, pathOrOriginal)]
    /\ UNCHANGED <<verifyVars, input, files, serviceVars>>

\* loadSignedAttestation(filePath) of the command line's verify
LoadSignedAttestation(filePath) ==
    /\ output' = [made |-> TRUE, op |-> "loadSignedAttestation", path |-> filePath,
                  before |-> files, result |-> loadSignedAttestation(files, filePath)]
    /\ UNCHANGED <<verifyVars, input, files, serviceVars>>

\* the arguments of a writing call, for a file that exists: the first
\* attestation with the default paths in each mode, the second one with
\* given paths, and the oversized one for the JPEG kept for it
WriteArguments ==
    {<<path, 1, mode, FALSE>> : path \in DOMAIN files, mode \in StorageModes}
        \cup {<<path, 2, mode, TRUE>> : path \in DOMAIN files, mode \in {"auto", "sidecar"}}
        \cup {<<BigJpegPath, 3, "metadata", FALSE>>}

NextStore ==
    \/ \E arguments \in WriteArguments :
          AttestSigned(arguments[1], arguments[2], arguments[3],
                       IF arguments[4] THEN GivenPaths ELSE NoPaths)
    \/ \E arguments \in WriteArguments :
          PublishSignedAttestation(arguments[2], arguments[1], arguments[3],
                                   IF arguments[4] THEN <<MetadataOut>> ELSE NoPath)
    \/ \E originalPath \in DOMAIN files :
          \/ WriteSidecar(originalPath, 2, NoPath)
          \/ WriteSidecar(originalPath, 1, <<SidecarOut>>)
    \/ \E pathOrOriginal \in DOMAIN files : ReadSidecar(pathOrOriginal)
    \/ \E filePath \in DOMAIN files : LoadSignedAttestation(filePath)

SpecStore == InitStore /\ [][NextStore]_vars

(***************************************************************************)
(* internal.ts                                                             *)
(***************************************************************************)
IsDefined(entry) == entry.value # JsUndefined

\* stripUndefined(obj): the properties whose value is not undefined
stripUndefined(obj) == JsObj(SelectSeq(obj.val, IsDefined))

\* left ?? right
Coalesce(left, right) == IF left \in {JsUndefined, JsNull} THEN right ELSE left

\* assertValidDate(expires) returns; otherwise it throws a plain Error
assertValidDate(expires) ==
    ~Truthy(expires) \/ DateParse(expires.val) # NaN

\* the n-th value of randomUUID()
randomUUID(n) == <<"u", "u", "i", "d", "-">> \o NumberToString(n)

\* does buildAttestation(inputValue, overrides) call randomUUID()
DrawsId(inputValue, overrides) ==
    Coalesce(Get(overrides, K_id), Get(inputValue, K_id)) \in {JsUndefined, JsNull}

\* buildAttestation(inputValue, overrides) when the next randomUUID() is uuid and
\* new Date().toISOString() is isoNow
buildAttestation(inputValue, overrides, uuid, isoNow) ==
    LET created == Coalesce(Get(overrides, K_created),
                            Coalesce(Get(inputValue, K_created), JsStr(isoNow)))
        id == Coalesce(Get(overrides, K_id), Coalesce(Get(inputValue, K_id), JsStr(uuid)))
    IN IF ~assertValidDate(Get(inputValue, K_expires)) THEN Throw(PlainError)
       ELSE Returned(stripUndefined(ObjectOf(<<
                Entry(K_version, JsStr(SUPPORTED_VERSION)),
                Entry(K_id, id),
                Entry(K_created, created),
                Entry(K_creator, Get(inputValue, K_creator)),
                Entry(K_intent, Get(inputValue, K_intent)),
                Entry(K_tool, Get(inputValue, K_tool)),
                Entry(K_upstream, Get(inputValue, K_upstream)),
                Entry(K_content_hash, Get(inputValue, K_content_hash)),
                Entry(K_expires, Get(inputValue, K_expires)),
                Entry(K_revocable, Coalesce(Get(inputValue, K_revocable), JsBool(TRUE))),
                Entry(K_license, Get(inputValue, K_license)),
                Entry(K_renews, Coalesce(Get(overrides, K_renews), Get(inputValue, K_renews))),
                Entry(K_extensions, Get(inputValue, K_extensions))>>)))

\* canonicalizeRecord(value): the same sortValue as the core's, then
\* JSON.stringify
canonicalizeRecord(value) == JsonStringify(sortValue(value))

(***************************************************************************)
(* server.ts: the event buffer                                             *)
(***************************************************************************)
DEFAULT_EVENT_LIMIT == 100

MAX_EVENT_BUFFER == 1000

\* the envelope { event: { id, type, payload } }; version, created and
\* session are carried along and read by nothing
buildEvent(type, payload, uuid) == [id |-> uuid, type |-> type, payload |-> payload]

\* array.slice(start, end)
ArraySlice(array, start, end) ==
    LET Clamp(k) == IF k < 0
                    THEN (IF Len(array) + k < 0 THEN 0 ELSE Len(array) + k)
                    ELSE (IF k > Len(array) THEN Len(array) ELSE k)
    IN SubSeq(array, Clamp(start) + 1, Clamp(end))

\* the buffer after pushEvent(events, envelope)
pushEvent(buffer, envelope) ==
    LET Trim(pushed) ==
            IF Len(pushed) > MAX_EVENT_BUFFER
            THEN SubSeq(pushed, Len(pushed) - MAX_EVENT_BUFFER + 1, Len(pushed))
            ELSE pushed
    IN Trim(Append(buffer, envelope))

\* events.findIndex((entry) => entry.event.id === sinceId)
findIndex(buffer, id) ==
    IF \E i \in 1..Len(buffer) : buffer[i].id = id
    THEN Least({i \in 1..Len(buffer) : buffer[i].id = id}) - 1
    ELSE 0 - 1

listEvents_FromSince(buffer, sinceId, limit) ==
    LET From(index) ==
            IF index < 0 THEN ArraySlice(buffer, 0 - limit, Len(buffer))
            ELSE ArraySlice(buffer, index, index + limit)
    IN IF ~Truthy(sinceId) THEN ArraySlice(buffer, 0 - limit, Len(buffer))
       ELSE From(findIndex(buffer, sinceId.val))

listEvents(buffer, sinceId, limit) ==
    LET From(index) ==
            IF index < 0 THEN ArraySlice(buffer, 0 - limit, Len(buffer))
            ELSE ArraySlice(buffer, index + 1, index + 1 + limit)
    IN IF ~Truthy(sinceId) THEN ArraySlice(buffer, 0 - limit, Len(buffer))
       ELSE From(findIndex(buffer, sinceId.val))
(***************************************************************************)
(* Timers: setTimeout and clearTimeout                                     *)
(***************************************************************************)
\* a timer object not in use
NewTimer(table) ==
    Least({n \in 1..(Len(table) + 1) : \A i \in 1..Len(table) : table[i].id # n})

\* the timer table after setTimeout(callback, ms)
setTimeout(table, callback, ms) ==
    Append(table, [id |-> NewTimer(table), left |-> ms, callback |-> callback])

\* the timer table after clearTimeout(id)
clearTimeout(table, id) ==
    LET Other(timer) == timer.id # id
    IN SelectSeq(table, Other)

(***************************************************************************)
(* server.ts: the handlers                                                 *)
(* A private key PEM is the number of its key pair. A handler's value is   *)
(* what it returns next to the event, with the type and payload it emits.  *)
(***************************************************************************)
K_attestation_id == <<"a", "t", "t", "e", "s", "t", "a", "t", "i", "o", "n", "_", "i", "d">>

K_revoked_at == <<"r", "e", "v", "o", "k", "e", "d", "_", "a", "t">>

K_reason == <<"r", "e", "a", "s", "o", "n">>

K_revocation == <<"r", "e", "v", "o", "c", "a", "t", "i", "o", "n">>

K_signed_attestation == <<"s", "i", "g", "n", "e", "d", "_", "a", "t", "t", "e", "s", "t", "a", "t", "i", "o", "n">>

NoOverrides == ObjectOf(<<>>)

Emitting(type, value) == [type |-> type, value |-> value]

handleDraft(inputValue, uuid, isoNow) ==
    LET Shown(draftValue) ==
            IF ~draftValue.ok THEN draftValue
            ELSE Returned(Emitting("arr.attestation.draft.created", draftValue.val))
    IN Shown(buildAttestation(inputValue, NoOverrides, uuid, isoNow))

handleSign(inputValue, k, uuid, isoNow) ==
    LET Signed(unsigned) ==
            IF ~unsigned.ok THEN unsigned
            ELSE Returned(Emitting("arr.attestation.signed",
                                   signAttestation(unsigned.val, k)))
    IN Signed(buildAttestation(inputValue, NoOverrides, uuid, isoNow))

handleRenew(inputValue, renews, k, uuid, isoNow) ==
    LET Signed(renewed) ==
            IF ~renewed.ok THEN renewed
            ELSE Returned(Emitting("arr.attestation.renewed",
                                   signAttestation(renewed.val, k)))
    IN Signed(buildAttestation(inputValue, ObjectOf(<<Entry(K_renews, JsStr(renews))>>),
                               uuid, isoNow))

\* a revocation of the attestation is among the buffered events
Revoked(signedAttestation) ==
    \E i \in 1..Len(events) :
        /\ events[i].type = "arr.attestation.revoked"
        /\ Get(Get(Get(events[i].payload, K_revocation), K_revocation), K_attestation_id)
              = Get(Get(signedAttestation, K_attestation), K_id)

handleVerify_ConsultingRevocations(signedAttestation, publicKeyPem, dateNow) ==
    Returned(Emitting("arr.attestation.verified",
        IF Revoked(signedAttestation) THEN [valid |-> FALSE, reason |-> "revoked"]
        ELSE verifyAttestation(signedAttestation, publicKeyPem, dateNow).val))

handleVerify(signedAttestation, publicKeyPem, dateNow) ==
    Returned(Emitting("arr.attestation.verified",
                      verifyAttestation(signedAttestation, publicKeyPem, dateNow).val))

\* the record { attestation_id, revoked_at, reason } of handleRevoke
RevocationRecord(attestationId, reason, revokedAt, isoNow) ==
    stripUndefined(ObjectOf(<<
        Entry(K_attestation_id, JsStr(attestationId)),
        Entry(K_revoked_at, Coalesce(revokedAt, JsStr(isoNow))),
        Entry(K_reason, reason)>>))

handleRevoke(attestationId, reason, revokedAt, k, isoNow) ==
    LET Signed(record) ==
            ObjectOf(<<Entry(K_revocation, record),
                       Entry(K_signature,
                             JsStr(ED25519_PREFIX
                                   \o encodeBase64Url(signBytes(canonicalizeRecord(record), k))))>>)
    IN Returned(Emitting("arr.attestation.revoked",
                         Signed(RevocationRecord(attestationId, reason, revokedAt, isoNow))))

(***************************************************************************)
(* Requests to the MCP server                                              *)
(***************************************************************************)
\* the signature table after crypto.sign(null, data, key k)
Signing(table, k, data) ==
    IF SignatureIndex(table, k, data) > Len(table)
    THEN Append(table, [key |-> k, data |-> data])
    ELSE table

\* a watch call whose handler emitter.emit("event", envelope) has called:
\* the promise resolves with the envelope and the call returns listEvents
Resolved(watch, buffer) ==
    [watch EXCEPT !.status = "returned",
                  !.by = "event",
                  !.events = listEvents(buffer, watch.since, watch.limit)]

\* emit(type, payload) after `drawn` earlier calls of randomUUID() in the
\* same request: buildEvent, pushEvent, emitter.emit (every listener is the
\* handler of a watch call: it clears its timer and removes itself) and a
\* write to every open event stream
Emit(type, payload, drawn) ==
    LET Deliver(envelope, buffer) ==
            /\ events' = buffer
            /\ watches' = [w \in DOMAIN watches |->
                              IF w \in listeners THEN Resolved(watches[w], buffer)
                              ELSE watches[w]]
            /\ stream' = IF widget.mounted THEN Append(stream, envelope) ELSE stream
        Push(envelope) == Deliver(envelope, pushEvent(events, envelope))
        Cleared(timer) == \A w \in listeners : watches[w].timer # timer.id
    IN /\ Push(buildEvent(type, payload, randomUUID(uuids + drawn + 1)))
       /\ uuids' = uuids + drawn + 1
       /\ timers' = SelectSeq(timers, Cleared)
       /\ listeners' = {}

\* how many times randomUUID() is called in one behaviour
MaxUuids == 4

\* new Date().toISOString()
IsoNow == <<"1", "9", "7", "0", "-", "0", "1", "-", "0", "1", "T", "0", "0", ":", "0", "0", ":", "0", "0", ".", "0", "0", "0", "Z">>

\* the signing key of the caller, and the intent of a renewal
SignerKey == 1

Updated == <<"U", "p", "d", "a", "t", "e", "d">>

\* the attestation of a sign request: as the MCP tool gets it without id, as
\* the widget posts a draft with its id, and one with an unusable expires
SignInputs ==
    {ObjectOf(<<Entry(K_creator, JsStr(CreatorOf(SignerKey))),
                Entry(K_intent, JsStr(<<"O", "r", "i", "g", "i", "n", "a", "l">>))>>),
     ObjectOf(<<Entry(K_creator, JsStr(CreatorOf(SignerKey))),
                Entry(K_id, JsStr(<<"t", "1">>)),
                Entry(K_intent, JsStr(<<"O", "r", "i", "g", "i", "n", "a", "l">>))>>),
     ObjectOf(<<Entry(K_creator, JsStr(CreatorOf(SignerKey))),
                Entry(K_expires, JsStr(NotADate))>>)}

\* the attestation of a renew request for the attestation `renewed`: the
\* fields the widget route keeps (toAttestationInputFromRenew), and the
\* attestation itself with a new intent, as the arr.attestation.renew tool
\* takes it (toAttestationInput keeps its id)
RenewInputs(renewed) ==
    {ObjectOf(<<Entry(K_creator, JsStr(CreatorOf(SignerKey))),
                Entry(K_intent, JsStr(Updated))>>),
     ObjectOf(<<Entry(K_creator, Get(renewed, K_creator)),
                Entry(K_id, Get(renewed, K_id)),
                Entry(K_created, Get(renewed, K_created)),
                Entry(K_intent, JsStr(Updated))>>)}

\* public_key_pem of a verify request: omitted, or the key of another pair
VerifyPems == {JsUndefined, JsStr(ExportPem(PublicKeyBytes(2)))}

\* Date.now() during a verify request
VerifyNow == DateParse(ExpiryDay)

\* reason of a revoke request
Reasons == {JsUndefined, JsStr(<<"S", "u", "p", "e", "r", "s", "e", "d", "e", "d">>)}

\* the signed attestations among the documents returned so far
HeldAttestations == {i \in DOMAIN held : held[i].op \in {"handleSign", "handleRenew"}}

IdOf(signedAttestation) == Get(Get(signedAttestation, K_attestation), K_id).val

\* what a request leaves alone when it emits an event
RequestFrame ==
    <<draft, signed, original, call, input, files, widget, pending, runs, fsevents,
      consumer>>

\* what a request leaves alone when it throws before emitting
NothingEmitted == <<events, listeners, watches, timers, stream>>

InitServer ==
    /\ signatures = <<>>
    /\ draft = JsUndefined
    /\ signed = JsUndefined
    /\ original = JsUndefined
    /\ call = NoCall
    /\ input = NoInput
    /\ output = NoOutput
    /\ files = NoFiles
    /\ ServiceOff

\* arr.attestation.create_draft, POST /api/v1/attestation/draft
HandleDraft(inputValue) ==
    /\ uuids + 2 <= MaxUuids
    /\ LET drawn == IF DrawsId(inputValue, NoOverrides) THEN 1 ELSE 0
           Respond(response) ==
               /\ output' = [made |-> TRUE, op |-> "handleDraft", result |-> response]
               /\ IF response.ok
                  THEN Emit(response.val.type,
                            ObjectOf(<<Entry(K_attestation, response.val.value)>>), drawn)
                  ELSE uuids' = uuids + drawn /\ UNCHANGED NothingEmitted
       IN Respond(handleDraft(inputValue, randomUUID(uuids + 1), IsoNow))
    /\ UNCHANGED <<signatures, held, RequestFrame>>

\* arr.attestation.sign, POST /api/v1/attestation/sign
HandleSign(inputValue, k) ==
    /\ uuids + 2 <= MaxUuids
    /\ LET drawn == IF DrawsId(inputValue, NoOverrides) THEN 1 ELSE 0
           Respond(response) ==
               /\ output' = [made |-> TRUE, op |-> "handleSign", result |-> response]
               /\ IF response.ok
                  THEN /\ signatures' = Signing(signatures, k,
                              canonicalizeAttestation(Get(response.val.value, K_attestation)))
                       /\ held' = Append(held, [op |-> "handleSign",
                                                doc |-> response.val.value])
                       /\ Emit(response.val.type,
                               ObjectOf(<<Entry(K_signed_attestation, response.val.value)>>),
                               drawn)
                  ELSE /\ uuids' = uuids + drawn
                       /\ UNCHANGED <<signatures, held, NothingEmitted>>
       IN Respond(handleSign(inputValue, k, randomUUID(uuids + 1), IsoNow))
    /\ UNCHANGED RequestFrame

\* arr.attestation.renew, POST /api/v1/attestation/renew
HandleRenew(inputValue, renews, k) ==
    /\ uuids + 2 <= MaxUuids
    /\ LET drawn == IF DrawsId(inputValue, NoOverrides) THEN 1 ELSE 0
           Respond(response) ==
               /\ output' = [made |-> TRUE, op |-> "handleRenew", renews |-> renews,
                             result |-> response]
               /\ IF response.ok
                  THEN /\ signatures' = Signing(signatures, k,
                              canonicalizeAttestation(Get(response.val.value, K_attestation)))
                       /\ held' = Append(held, [op |-> "handleRenew", renews |-> renews,
                                                doc |-> response.val.value])
                       /\ Emit(response.val.type,
                               ObjectOf(<<Entry(K_signed_attestation, response.val.value)>>),
                               drawn)
                  ELSE /\ uuids' = uuids + drawn
                       /\ UNCHANGED <<signatures, held, NothingEmitted>>
       IN Respond(handleRenew(inputValue, renews, k, randomUUID(uuids + 1), IsoNow))
    /\ UNCHANGED RequestFrame

\* arr.attestation.verify, POST /api/v1/attestation/verify
HandleVerify(signedAttestation, publicKeyPem, dateNow) ==
    /\ uuids + 1 <= MaxUuids
    /\ LET Respond(response) ==
               /\ output' = [made |-> TRUE, op |-> "handleVerify",
                             signed |-> signedAttestation, key |-> publicKeyPem,
                             result |-> response]
               /\ held' = Append(held, [op |-> "handleVerify", doc |-> signedAttestation,
                                        key |-> publicKeyPem,
                                        result |-> response.val.value])
               /\ Emit(response.val.type,
                       ObjectOf(<<Entry(K_signed_attestation, signedAttestation)>>), 0)
       IN Respond(handleVerify(signedAttestation, publicKeyPem, dateNow))
    /\ UNCHANGED <<signatures, RequestFrame>>

\* arr.revocation.create, POST /api/v1/attestation/revoke
HandleRevoke(attestationId, reason, k) ==
    /\ uuids + 1 <= MaxUuids
    /\ LET Respond(response) ==
               /\ output' = [made |-> TRUE, op |-> "handleRevoke",
                             id |-> attestationId, result |-> response]
               /\ signatures' = Signing(signatures, k,
                      canonicalizeRecord(Get(response.val.value, K_revocation)))
               /\ held' = Append(held, [op |-> "handleRevoke", doc |-> response.val.value])
               /\ Emit(response.val.type,
                       ObjectOf(<<Entry(K_revocation, response.val.value)>>), 0)
       IN Respond(handleRevoke(attestationId, reason, JsUndefined, k, IsoNow))
    /\ UNCHANGED RequestFrame

NextServer ==
    \/ \E inputValue \in SignInputs : HandleDraft(inputValue)
    \/ \E inputValue \in SignInputs : HandleSign(inputValue, SignerKey)
    \/ \E i \in HeldAttestations :
          \E inputValue \in RenewInputs(Get(held[i].doc, K_attestation)) :
              HandleRenew(inputValue, IdOf(held[i].doc), SignerKey)
    \/ \E i \in HeldAttestations, publicKeyPem \in VerifyPems :
          HandleVerify(held[i].doc, publicKeyPem, VerifyNow)
    \/ \E i \in HeldAttestations, reason \in Reasons :
          HandleRevoke(IdOf(held[i].doc), reason, SignerKey)

SpecServer == InitServer /\ [][NextServer]_vars

(***************************************************************************)
(* The event buffer and a caller of arr.events.list                        *)
(***************************************************************************)
\* events emitted by one behaviour, beyond those it starts with
MaxEmits == 3

\* arr.events.list calls of the consumer
MaxPages == 4

\* the events a long-running server has emitted before the behaviour starts
Prefill == MAX_EVENT_BUFFER - 2

\* the n-th event the server emits; its payload tells n
NthEvent(n) == buildEvent("arr.attestation.signed", JsNum(n), randomUUID(n))

\* the emission number an envelope carries
Serial(envelope) == envelope.payload.val

RECURSIVE EmittedEvents(_, _)
\* the events number `first` to `last`, each pushed in turn
EmittedEvents(first, last) ==
    IF first > last THEN <<>>
    ELSE IF first = last THEN pushEvent(<<>>, NthEvent(first))
    ELSE EmittedEvents(first, (first + last) \div 2)
             \o EmittedEvents((first + last) \div 2 + 1, last)

\* limit of arr.events.list: omitted (DEFAULT_EVENT_LIMIT), or given
ListLimits == {JsUndefined, JsNum(1), JsNum(2)}

\* since_id of the consumer's next call: the id of the last event it received
LastReceived ==
    IF consumer.received = <<>> THEN JsUndefined
    ELSE JsStr(consumer.received[Len(consumer.received)].id)

\* what the steps of the event buffer leave alone
EventsFrame ==
    <<verifyVars, input, files, held, widget, pending, runs, fsevents>>

InitEvents ==
    /\ signatures = <<>>
    /\ draft = JsUndefined
    /\ signed = JsUndefined
    /\ original = JsUndefined
    /\ call = NoCall
    /\ input = NoInput
    /\ output = NoOutput
    /\ files = NoFiles
    /\ uuids \in {0, Prefill}
    /\ events = EmittedEvents(1, uuids)
    /\ held = <<>>
    /\ listeners = {}
    /\ watches = <<>>
    /\ timers = <<>>
    /\ stream = <<>>
    /\ widget = [mounted |-> FALSE, state |-> "idle", status |-> "idle"]
    /\ pending = <<>>
    /\ runs = <<>>
    /\ fsevents = <<>>
    /\ \E seen \in {0, 1} :
          /\ seen <= Len(events)
          /\ consumer = [received |-> SubSeq(events, 1, seen), calls |-> 0, gap |-> FALSE]

\* a request handler emits the next event
EmitEvent ==
    /\ uuids < (IF uuids >= Prefill THEN Prefill ELSE 0) + MaxEmits
    /\ Emit("arr.attestation.signed", JsNum(uuids + 1), 0)
    /\ UNCHANGED <<output, consumer, EventsFrame>>

\* arr.events.list with since_id the id of the last event the consumer got
ListEvents(sinceId, limit) ==
    /\ consumer.calls < MaxPages
    /\ LET Receive(page) ==
               /\ output' = [made |-> TRUE, op |-> "listEvents", since |-> sinceId,
                             limit |-> Coalesce(limit, JsNum(DEFAULT_EVENT_LIMIT)).val,
                             found |-> Truthy(sinceId) /\ findIndex(events, sinceId.val) >= 0,
                             emitted |-> uuids,
                             result |-> page]
               /\ consumer' =
                      [received |-> consumer.received \o page,
                       calls |-> consumer.calls + 1,
                       gap |-> \/ consumer.gap
                               \/ Truthy(sinceId) /\ findIndex(events, sinceId.val) < 0]
       IN Receive(listEvents(events, sinceId,
                             Coalesce(limit, JsNum(DEFAULT_EVENT_LIMIT)).val))
    /\ UNCHANGED <<events, uuids, listeners, watches, timers, stream, EventsFrame>>

NextEvents ==
    \/ EmitEvent
    \/ \E limit \in ListLimits : ListEvents(LastReceived, limit)

SpecEvents == InitEvents /\ [][NextEvents]_vars

(***************************************************************************)
(* arr.events.watch                                                        *)
(***************************************************************************)
\* arr.events.watch calls in one behaviour
MaxWatches == 2

\* timeout_ms ?? 30000
DefaultWatchTimeout == 30000

\* timeout_ms of a call: omitted, or the least the schema allows
WatchTimeouts == {JsUndefined, JsNum(250)}

\* since_id of a call: omitted, or the id of the newest event
NewestEvent ==
    IF events = <<>> THEN JsUndefined ELSE JsStr(events[Len(events)].id)

\* emitter.removeListener("event", handler)
removeListener_Kept(registered, w) == registered

removeListener(registered, w) == registered \ {w}

\* a call that returns the events listEvents found at once
ReturnedAtOnce(sinceId, limit, existing) ==
    [since |-> sinceId, limit |-> limit, timeout |-> 0, status |-> "returned",
     by |-> "existing", timer |-> 0, waited |-> 0, events |-> existing]

\* a call that waits for the promise: handler registered, timer set
Waiting(sinceId, limit, timeout, timer) ==
    [since |-> sinceId, limit |-> limit, timeout |-> timeout, status |-> "waiting",
     by |-> "none", timer |-> timer, waited |-> 0, events |-> <<>>]

\* the call after its timer fired: resolve(null), payload { events: [] }
TimedOut(watch) ==
    [watch EXCEPT !.status = "returned", !.by = "timeout", !.events = <<>>]

\* the timers of the table that belong to the watch call w
TimersOf(w) ==
    {i \in DOMAIN timers : timers[i].callback = [kind |-> "watch", watch |-> w]}

\* what the steps of a watch call leave alone
WatchFrame ==
    <<verifyVars, input, files, held, widget, pending, runs, fsevents, consumer>>

\* the tool arr.events.watch is called
Watch(sinceId, timeoutMs, limit) ==
    /\ Len(watches) < MaxWatches
    /\ LET w == Len(watches) + 1
           Begin(existing, timeout) ==
               /\ output' = [made |-> TRUE, op |-> "watch", watch |-> w,
                             existing |-> existing]
               /\ IF Len(existing) > 0
                  THEN /\ watches' = Append(watches, ReturnedAtOnce(sinceId, limit, existing))
                       /\ UNCHANGED <<timers, listeners>>
                  ELSE /\ timers' = setTimeout(timers, [kind |-> "watch", watch |-> w],
                                               timeout)
                       /\ listeners' = listeners \cup {w}
                       /\ watches' = Append(watches,
                              Waiting(sinceId, limit, timeout, NewTimer(timers)))
       IN Begin(listEvents(events, sinceId, limit),
                Coalesce(timeoutMs, JsNum(DefaultWatchTimeout)).val)
    /\ UNCHANGED <<events, uuids, stream, WatchFrame>>

\* time passes until some pending timer is due
Tick ==
    /\ \E i \in DOMAIN timers : timers[i].left > 0
    /\ \E i \in DOMAIN timers :
          /\ timers[i].left > 0
          /\ LET Pass(ms) ==
                    /\ timers' = [j \in DOMAIN timers |->
                                     [timers[j] EXCEPT !.left =
                                          IF @ > ms THEN @ - ms ELSE 0]]
                    /\ watches' = [w \in DOMAIN watches |->
                                      IF watches[w].status = "waiting"
                                      THEN [watches[w] EXCEPT !.waited = @ + ms]
                                      ELSE watches[w]]
             IN Pass(timers[i].left)
    /\ UNCHANGED <<events, uuids, listeners, stream, output, WatchFrame>>

\* the timer of a watch call fires: removeListener, resolve(null)
WatchTimerFires ==
    /\ \E i \in DOMAIN timers :
          /\ timers[i].left = 0
          /\ timers[i].callback.kind = "watch"
          /\ LET Run(w) ==
                    /\ listeners' = removeListener(listeners, w)
                    /\ watches' = [watches EXCEPT ![w] = TimedOut(@)]
                    /\ output' = [made |-> TRUE, op |-> "timeout", watch |-> w,
                                  existing |-> <<>>]
             IN Run(timers[i].callback.watch)
          /\ timers' = clearTimeout(timers, timers[i].id)
    /\ UNCHANGED <<events, uuids, stream, WatchFrame>>

InitWatch == InitServer

NextWatch ==
    \/ EmitEvent
    \/ \E timeoutMs \in WatchTimeouts, limit \in {1, DEFAULT_EVENT_LIMIT} :
          \/ Watch(JsUndefined, timeoutMs, limit)
          \/ Watch(NewestEvent, timeoutMs, limit)
    \/ Tick
    \/ WatchTimerFires

SpecWatch == InitWatch /\ [][NextWatch]_vars

\* the event loop: time passes, and a timer that is due is run
SpecWatchFair == SpecWatch /\ WF_vars(Tick) /\ WF_vars(WatchTimerFires)

(***************************************************************************)
(* The widget: lifecycle contract (widget-contract.ts) and event stream    *)
(***************************************************************************)
WIDGET_STATES ==
    <<"idle", "selecting", "drafting", "pending_sign", "signed", "publishing",
      "published", "verified", "error">>

WIDGET_TRANSITIONS_NoReset ==
    [idle |-> <<"selecting">>,
     selecting |-> <<"idle", "drafting">>,
     drafting |-> <<"idle", "pending_sign", "error">>,
     pending_sign |-> <<"signed", "idle", "error">>,
     signed |-> <<"publishing", "idle">>,
     publishing |-> <<"published", "error">>,
     published |-> <<"verified">>,
     verified |-> <<"published">>,
     error |-> <<"idle", "drafting">>]

WIDGET_TRANSITIONS ==
    [idle |-> <<"selecting">>,
     selecting |-> <<"idle", "drafting">>,
     drafting |-> <<"idle", "pending_sign", "error">>,
     pending_sign |-> <<"signed", "idle", "error">>,
     signed |-> <<"publishing", "idle">>,
     publishing |-> <<"published", "error">>,
     published |-> <<"verified", "idle">>,
     verified |-> <<"idle">>,
     error |-> <<"idle", "drafting">>]

EVENT_TO_STATE ==
    [type \in {"arr.attestation.draft.created", "arr.attestation.signed",
               "arr.attestation.published", "arr.attestation.verified",
               "arr.attestation.renewed", "arr.attestation.revoked"} |->
        CASE type = "arr.attestation.draft.created" -> "pending_sign"
          [] type = "arr.attestation.signed" -> "signed"
          [] type = "arr.attestation.published" -> "published"
          [] type = "arr.attestation.verified" -> "verified"
          [] type = "arr.attestation.renewed" -> "verified"
          [] type = "arr.attestation.revoked" -> "idle"]

\* array.includes(item)
Includes(array, item) == \E i \in DOMAIN array : array[i] = item

isValidTransition(from, to) == Includes(WIDGET_TRANSITIONS[from], to)

\* widget.ts: setState, setStatus, clearState
setState(view, next) == [view EXCEPT !.state = next]

setStatus(view, message) == [view EXCEPT !.status = message]

clearState(view) == setState(setStatus(view, "Idle"), "idle")

\* source.onmessage for an envelope of the event stream
onmessage(view, envelope) ==
    IF envelope.type \in DOMAIN EVENT_TO_STATE
    THEN setStatus(setState(view, EVENT_TO_STATE[envelope.type]), envelope.type)
    ELSE setStatus(view, envelope.type)

\* what the steps of the widget leave alone
WidgetFrame ==
    <<verifyVars, input, files, events, uuids, held, listeners, watches, timers,
      pending, runs, fsevents, consumer>>

\* mount(): connectEvents opens the event stream, and the server writes its
\* backlog to it
Mount ==
    /\ ~widget.mounted
    /\ widget' = [widget EXCEPT !.mounted = TRUE]
    /\ stream' = listEvents(events, JsUndefined, DEFAULT_EVENT_LIMIT)
    /\ UNCHANGED <<output, WidgetFrame>>

\* the widget reads the next message of the event stream
OnMessage ==
    /\ widget.mounted
    /\ stream # <<>>
    /\ widget' = onmessage(widget, Head(stream))
    /\ stream' = Tail(stream)
    /\ output' = [made |-> TRUE, op |-> "onmessage", type |-> Head(stream).type,
                  from |-> widget.state, to |-> widget'.state]
    /\ UNCHANGED WidgetFrame

\* a click on the clear button
ClearState ==
    /\ widget.mounted
    /\ widget.state # "idle"
    /\ widget' = clearState(widget)
    /\ output' = [made |-> TRUE, op |-> "clearState", type |-> "click",
                  from |-> widget.state, to |-> "idle"]
    /\ UNCHANGED <<stream, WidgetFrame>>

InitWidget == InitServer

NextWidget ==
    \/ NextServer
    \/ Mount
    \/ OnMessage
    \/ ClearState

SpecWidget == InitWidget /\ [][NextWidget]_vars

\* transitions a client of the contract makes in one behaviour
MaxSteps == 12

\* a client of the contract moves to a state isValidTransition allows
Transition(to) ==
    /\ output.made => output.steps < MaxSteps
    /\ isValidTransition(widget.state, to)
    /\ widget' = setState(widget, to)
    /\ output' = [made |-> TRUE, op |-> "transition", from |-> widget.state, to |-> to,
                  steps |-> IF output.made THEN output.steps + 1 ELSE 1]
    /\ UNCHANGED <<stream, WidgetFrame>>

InitLifecycle == InitServer

NextLifecycle == \E i \in DOMAIN WIDGET_STATES : Transition(WIDGET_STATES[i])

SpecLifecycle == InitLifecycle /\ [][NextLifecycle]_vars

(***************************************************************************)
(* The command line's watch folder: schedule and processFile               *)
(***************************************************************************)
\* file-system events in one behaviour
MaxFsEvents == 3

\* the delay of schedule's setTimeout
DebounceMs == 400

DEFAULT_IMAGE_EXTS ==
    {<<".", "p", "n", "g">>, <<".", "j", "p", "g">>, <<".", "j", "p", "e", "g">>}

\* String.prototype.toLowerCase
toLowerCase(s) == [i \in DOMAIN s |-> ToLower(s[i])]

\* String.prototype.includes
StringIncludes(s, part) ==
    \E i \in 1..(Len(s) - Len(part) + 1) : SubSeq(s, i, i + Len(part) - 1) = part

isSkippableFilename(fileName) ==
    LET Test(lower) ==
            \/ StartsWith(lower, <<".">>)
            \/ EndsWith(lower, <<"~">>)
            \/ lower = <<"t", "h", "u", "m", "b", "s", ".", "d", "b">>
            \/ lower = <<".", "d", "s", "_", "s", "t", "o", "r", "e">>
            \/ EndsWith(lower, ArrExtension)
            \/ StringIncludes(lower, AttestedSuffix)
    IN Test(toLowerCase(fileName))

\* path.extname(filePath).toLowerCase() is one of exts
hasSupportedExtension(filePath, exts) ==
    toLowerCase(SubSeq(filePath, ExtensionStart(filePath), Len(filePath))) \in exts

\* a return without an outcome, and why
NothingDone(why) == Outcome("none", NoPath, why)

\* processFile(filePath) with the default options (images only, mode auto,
\* no output directory) and the private key k: the file system after it and
\* what it did
processFile(fs, filePath, k) ==
    IF filePath \notin DOMAIN fs THEN [files |-> fs, result |-> NothingDone("ENOENT")]
    ELSE IF isSkippableFilename(filePath)
    THEN [files |-> fs, result |-> NothingDone("skippable")]
    ELSE IF ~hasSupportedExtension(filePath, DEFAULT_IMAGE_EXTS)
    THEN [files |-> fs, result |-> NothingDone("extension")]
    ELSE attestSigned(fs, filePath,
                      signAttestation(BuildAttestation(SUPPORTED_VERSION, CreatorOf(k), <<>>), k),
                      "auto", NoPaths)

\* pending.get(filePath)
PendingGet(map, filePath) == IF filePath \in DOMAIN map THEN map[filePath] ELSE 0

\* pending.set(filePath, timer)
PendingSet(map, filePath, timer) ==
    [p \in DOMAIN map \cup {filePath} |-> IF p = filePath THEN timer ELSE map[p]]

\* pending.delete(filePath)
PendingDelete(map, filePath) == [p \in DOMAIN map \ {filePath} |-> map[p]]

schedule_NoCancel(table, map, filePath) ==
    [timers |-> setTimeout(table, [kind |-> "process", path |-> filePath], DebounceMs),
     pending |-> PendingSet(map, filePath, NewTimer(table))]

\* schedule(filePath): the timer table and the pending map after it
schedule(table, map, filePath) ==
    LET Start(cleared) ==
            [timers |-> setTimeout(cleared, [kind |-> "process", path |-> filePath],
                                   DebounceMs),
             pending |-> PendingSet(map, filePath, NewTimer(cleared))]
    IN IF PendingGet(map, filePath) # 0
       THEN Start(clearTimeout(table, PendingGet(map, filePath)))
       ELSE Start(table)

\* the file names fs.watch reports: an image, the attested copy that
\* processing writes next to it, and a file deleted again before its timer
WatchedPaths == {PngPath, defaultMetadataOutputPath(PngPath), <<"g", ".", "p", "n", "g">>}

\* file-system events seen so far
SeenFsEvents(log) ==
    Cardinality({<<p, n>> \in (DOMAIN log) \X (1..MaxFsEvents) : n <= log[p].events})

\* the log after an event for the path: the event opens a burst when it is
\* the first for the path or processing has started since the last one
Logged(log, filePath) ==
    LET Entry0 == [events |-> 0, bursts |-> 0, quiet |-> 0, ran |-> TRUE]
        After(entry) == [events |-> entry.events + 1,
                         bursts |-> IF entry.ran THEN entry.bursts + 1 ELSE entry.bursts,
                         quiet |-> 0,
                         ran |-> FALSE]
    IN [p \in DOMAIN log \cup {filePath} |->
           IF p = filePath
           THEN After(IF filePath \in DOMAIN log THEN log[filePath] ELSE Entry0)
           ELSE log[p]]

\* what the steps of the watch folder leave alone
FolderFrame ==
    <<draft, signed, original, call, input, events, uuids, held, listeners, watches,
      stream, widget, consumer>>

\* fs.watch reports an event for a file name: schedule(filePath)
FsEvent(filePath) ==
    /\ SeenFsEvents(fsevents) < MaxFsEvents
    /\ LET Keep(scheduled) ==
               /\ timers' = scheduled.timers
               /\ pending' = scheduled.pending
       IN Keep(schedule(timers, pending, filePath))
    /\ fsevents' = Logged(fsevents, filePath)
    /\ output' = [made |-> TRUE, op |-> "schedule", path |-> filePath,
                  result |-> NothingDone("scheduled")]
    /\ UNCHANGED <<signatures, files, runs, FolderFrame>>

\* time passes, at most until the next timer is due
Wait(ms) ==
    /\ timers # <<>>
    /\ ms > 0
    /\ \A i \in DOMAIN timers : timers[i].left >= ms
    /\ timers' = [i \in DOMAIN timers |-> [timers[i] EXCEPT !.left = @ - ms]]
    /\ fsevents' = [p \in DOMAIN fsevents |->
                       [fsevents[p] EXCEPT !.quiet =
                            IF @ + ms > DebounceMs THEN DebounceMs ELSE @ + ms]]
    /\ UNCHANGED <<signatures, files, output, pending, runs, FolderFrame>>

\* a timer of schedule fires: pending.delete(filePath), and processFile
\* is started, which first awaits stat(filePath)
ProcessTimerFires ==
    \E i \in DOMAIN timers :
        /\ timers[i].left = 0
        /\ timers[i].callback.kind = "process"
        /\ LET Run(filePath) ==
                  /\ pending' = PendingDelete(pending, filePath)
                  /\ runs' = Append(runs, [path |-> filePath,
                                           quiet |-> fsevents[filePath].quiet,
                                           done |-> FALSE])
                  /\ fsevents' = [fsevents EXCEPT ![filePath].ran = TRUE]
                  /\ output' = [made |-> TRUE, op |-> "timer", path |-> filePath,
                                result |-> NothingDone("started")]
           IN Run(timers[i].callback.path)
        /\ timers' = clearTimeout(timers, timers[i].id)
        /\ UNCHANGED <<signatures, files, FolderFrame>>

\* a started processFile goes on after its await
ProcessFile(run) ==
    /\ ~runs[run].done
    /\ LET Finish(filePath, processed) ==
               /\ files' = processed.files
               /\ signatures' =
                      IF processed.files # files
                      THEN Signing(signatures, SignerKey, canonicalizeAttestation(
                               BuildAttestation(SUPPORTED_VERSION, CreatorOf(SignerKey),
                                                <<>>)))
                      ELSE signatures
               /\ output' = [made |-> TRUE, op |-> "processFile", path |-> filePath,
                             result |-> processed.result]
       IN Finish(runs[run].path, processFile(files, runs[run].path, SignerKey))
    /\ runs' = [runs EXCEPT ![run].done = TRUE]
    /\ UNCHANGED <<timers, pending, fsevents, FolderFrame>>

\* how long the event loop waits: some time, or until a timer is due
WaitTimes == {250} \cup {timers[i].left : i \in DOMAIN timers}

InitFolder ==
    /\ signatures = <<>>
    /\ draft = JsUndefined
    /\ signed = JsUndefined
    /\ original = JsUndefined
    /\ call = NoCall
    /\ input = NoInput
    /\ output = NoOutput
    /\ files = OneFile(PngPath, PlainPng)
    /\ ServiceOff

NextFolder ==
    \/ \E filePath \in WatchedPaths : FsEvent(filePath)
    \/ \E ms \in WaitTimes : Wait(ms)
    \/ ProcessTimerFires
    \/ \E run \in DOMAIN runs : ProcessFile(run)

SpecFolder == InitFolder /\ [][NextFolder]_vars

\* the event loop: time passes while a timer is pending, and a timer that
\* is due is run
SpecFolderFair ==
    SpecFolder /\ WF_vars(\E ms \in WaitTimes : Wait(ms)) /\ WF_vars(ProcessTimerFires)

(***************************************************************************)
(* Properties of verifyAttestation                                         *)
(***************************************************************************)
Invalid(reason) == [valid |-> FALSE, reason |-> reason]

Returns == call.made /\ call.outcome.ok

AttestationOf(v) == Get(v, K_attestation)

VersionSupported(v) == Get(AttestationOf(v), K_version) = JsStr(SUPPORTED_VERSION)

CreatorIn(v) == Get(AttestationOf(v), K_creator).val

ExpiresIn(v) == Get(AttestationOf(v), K_expires)

\* the private key that made the one signature
Signer == signatures[1].key

\* key is the public key of pair k, as PEM text or as a KeyObject
IsKeyFor(key, k) ==
    key \in {JsStr(ExportPem(PublicKeyBytes(k))), KeyObject(PublicKeyBytes(k))}

NoKeyGiven(key) == ~Truthy(key)

\* no key given and the creator id embeds none
NoKeyNamed(c) ==
    NoKeyGiven(c.key) /\ ~StartsWith(CreatorIn(c.signed), PUBKEY_CREATOR_PREFIX)

\* no key given and the creator id embeds something that is not 32 bytes
BadEmbeddedKey(c) ==
    /\ NoKeyGiven(c.key)
    /\ StartsWith(CreatorIn(c.signed), PUBKEY_CREATOR_PREFIX)
    /\ Len(decodeBase64Url(Slice(CreatorIn(c.signed), Len(PUBKEY_CREATOR_PREFIX))))
         # PublicKeyLength

\* the call resolves the public key of pair k
ResolvesKey(c, k) ==
    \/ IsKeyFor(c.key, k)
    \/ NoKeyGiven(c.key) /\ CreatorIn(c.signed) = CreatorOf(k)

\* attestation and signature are as signed, and the key resolved is the signer's
Genuine(c) ==
    /\ original # JsUndefined
    /\ AttestationOf(c.signed) = AttestationOf(original)
    /\ Get(c.signed, K_signature) = Get(original, K_signature)
    /\ ResolvesKey(c, Signer)

\* a real public key is resolved, but the signature is not one made with its
\* private key over this attestation
SignatureFails(c) ==
    /\ \E k \in Keys : ResolvesKey(c, k)
    /\ ~Genuine(c)

Unparseable(expires) == expires # JsUndefined /\ DateParse(expires.val) = NaN

VerifyReasons ==
    {"invalid_signature", "unsupported_version", "malformed", "missing_public_key"}

\* C2: every value verifyAttestation returns is {valid:true, expired:boolean}
\* without reason, or {valid:false, reason} with one of the four reasons and
\* without expired.
C2_ResultShape ==
    Returns =>
        LET r == call.outcome.val
        IN \/ /\ DOMAIN r = {"valid", "expired"}
              /\ r.valid = TRUE
              /\ r.expired \in BOOLEAN
           \/ /\ DOMAIN r = {"valid", "reason"}
              /\ r.valid = FALSE
              /\ r.reason \in VerifyReasons

\* a genuine attestation whose expires is not a date: the failure is one of
\* the four reasons
C2_Witness ==
    /\ Returns
    /\ isSignedAttestation(call.signed)
    /\ VersionSupported(call.signed)
    /\ Genuine(call)
    /\ Unparseable(ExpiresIn(call.signed))
    /\ call.outcome.val = Malformed

\* C3: verifyAttestation never throws: every call returns a result.
C3_NeverThrows == call.made => call.outcome.ok

\* a creator with a malformed embedded key and no explicit key: parsing the
\* creator throws inside, the call returns
C3_Witness ==
    /\ call.made
    /\ isSignedAttestation(call.signed)
    /\ VersionSupported(call.signed)
    /\ BadEmbeddedKey(call)
    /\ call.outcome.ok

\* the stored value is exactly what signAttestation returned
AsSigned(c) == original # JsUndefined /\ c.signed = original

\* the signer's public key is passed as the second argument
MatchingKeyGiven(c) == original # JsUndefined /\ IsKeyFor(c.key, Signer)

\* the public key of another key pair is passed as the second argument
OtherKeyGiven(c) ==
    original # JsUndefined /\ \E k \in Keys \ {Signer} : IsKeyFor(c.key, k)

\* a field value of the signed attestation was changed so that the canonical
\* form differs, the signature left as it was
FieldChanged(c) ==
    /\ original # JsUndefined
    /\ c.signed.kind = "object"
    /\ AttestationOf(c.signed).kind = "object"
    /\ Get(c.signed, K_signature) = Get(original, K_signature)
    /\ canonicalizeAttestation(AttestationOf(c.signed))
         # canonicalizeAttestation(AttestationOf(original))

\* C4 as stated: a signed attestation verifies with the matching public key;
\* after any change of a field value that changes the canonical form, or with
\* a public key that does not match, the result is invalid_signature.
C4_TamperDetection_AsStated ==
    Returns =>
        LET r == call.outcome.val
        IN /\ AsSigned(call) /\ MatchingKeyGiven(call) => r.valid = TRUE
           /\ FieldChanged(call) /\ MatchingKeyGiven(call)
                => r = Invalid("invalid_signature")
           /\ AsSigned(call) /\ OtherKeyGiven(call)
                => r = Invalid("invalid_signature")

\* C4 amended: the same, for attestations the earlier and later checks let
\* through: valid:true needs version "arr/0.1" and an absent or parseable
\* expires; invalid_signature needs the changed attestation to pass the
\* validator and to keep version "arr/0.1".
C4_TamperDetection ==
    Returns =>
        LET r == call.outcome.val
        IN /\ /\ AsSigned(call) /\ MatchingKeyGiven(call)
              /\ VersionSupported(call.signed)
              /\ ~Unparseable(ExpiresIn(call.signed))
              => r.valid = TRUE
           /\ /\ FieldChanged(call) /\ MatchingKeyGiven(call)
              /\ isSignedAttestation(call.signed)
              /\ VersionSupported(call.signed)
              => r = Invalid("invalid_signature")
           /\ /\ AsSigned(call) /\ OtherKeyGiven(call)
              /\ VersionSupported(call.signed)
              => r = Invalid("invalid_signature")

\* the intent of a signed attestation was changed and the signer's key given
C4_Witness ==
    /\ Returns
    /\ FieldChanged(call)
    /\ MatchingKeyGiven(call)
    /\ Get(AttestationOf(call.signed), K_intent) # Get(AttestationOf(original), K_intent)
    /\ call.outcome.val = Invalid("invalid_signature")

\* C5: once structure, version, key and signature checks pass, the result is
\* {valid:true, expired:false} without expires, {valid:true, expired: now >
\* expires} with a parseable expires (not expired at the instant itself), and
\* malformed with an unparseable expires.
C5_Expiry ==
    (/\ Returns
     /\ isSignedAttestation(call.signed)
     /\ VersionSupported(call.signed)
     /\ Genuine(call))
    => LET e == ExpiresIn(call.signed)
           r == call.outcome.val
       IN IF e = JsUndefined THEN r = [valid |-> TRUE, expired |-> FALSE]
          ELSE IF Unparseable(e) THEN r = Malformed
          ELSE r = [valid |-> TRUE, expired |-> call.now > DateParse(e.val)]

\* verified at the very instant of expires: not expired
C5_Witness ==
    /\ Returns
    /\ Genuine(call)
    /\ VersionSupported(call.signed)
    /\ ExpiresIn(call.signed) = JsStr(ExpiryDay)
    /\ call.now = DateParse(ExpiryDay)
    /\ call.outcome.val = [valid |-> TRUE, expired |-> FALSE]

\* what the expiry step answers for this attestation at this time
ExpiryVerdict(c) ==
    LET e == ExpiresIn(c.signed)
    IN IF e = JsUndefined THEN [valid |-> TRUE, expired |-> FALSE]
       ELSE IF Unparseable(e) THEN Malformed
       ELSE [valid |-> TRUE, expired |-> c.now > DateParse(e.val)]

\* C6: an explicit public key, when given, is the key used and the creator is
\* not consulted; with none given a "pubkey:ed25519:" creator supplies the key
\* and an embedded key that is not 32 bytes is malformed; with none given and
\* any other creator scheme the result is missing_public_key.
C6_KeyResolution ==
    (/\ Returns
     /\ isSignedAttestation(call.signed)
     /\ VersionSupported(call.signed))
    => LET r == call.outcome.val
       IN /\ AsSigned(call) /\ MatchingKeyGiven(call) => r = ExpiryVerdict(call)
          /\ AsSigned(call) /\ OtherKeyGiven(call) => r = Invalid("invalid_signature")
          /\ BadEmbeddedKey(call) => r = Malformed
          /\ NoKeyNamed(call) => r = Invalid("missing_public_key")
          /\ /\ AsSigned(call) /\ NoKeyGiven(call.key)
             /\ CreatorIn(call.signed) = CreatorOf(Signer)
             => r = ExpiryVerdict(call)

\* the signer's key is given while the creator embeds a malformed key: the
\* attestation verifies
C6_Witness ==
    /\ Returns
    /\ AsSigned(call)
    /\ MatchingKeyGiven(call)
    /\ VersionSupported(call.signed)
    /\ CreatorIn(call.signed) = ShortKeyCreator
    /\ call.outcome.val.valid = TRUE

B64UrlChars == {B64UrlAlphabet[i] : i \in 1..Len(B64UrlAlphabet)}

\* "ed25519:" followed by base64url characters
WellFormedSignature(sig) ==
    /\ StartsWith(sig, ED25519_PREFIX)
    /\ Len(sig) > Len(ED25519_PREFIX)
    /\ \A i \in (Len(ED25519_PREFIX) + 1)..Len(sig) : sig[i] \in B64UrlChars

\* C7: invalid_signature is returned only for a signature string of the form
\* "ed25519:<base64url>" that fails to verify; any other signature string is
\* a structural violation, never invalid_signature.
C7_InvalidSignatureOnlyWellFormed ==
    (Returns /\ call.outcome.val = Invalid("invalid_signature"))
    => WellFormedSignature(Get(call.signed, K_signature).val)

(***************************************************************************)
(* Properties of canonicalizeAttestation                                   *)
(***************************************************************************)
Canonicalized == output.made /\ output.op = "canonicalizeAttestation"

\* C8: whatever the insertion order of the keys of every record of an
\* attestation (records inside arrays included), canonicalizeAttestation
\* returns the same string, and the order of array elements is kept.
C8_KeyOrderIndependent ==
    Canonicalized =>
        /\ output.shuffled = output.reference
        /\ output.reversed # output.reference

RECURSIVE KeysAscendByCodePoint(_)
\* in every record of v the keys ascend in the ordinal order
KeysAscendByCodePoint(v) ==
    IF v.kind = "array"
    THEN \A i \in 1..Len(v.val) : KeysAscendByCodePoint(v.val[i])
    ELSE IF v.kind = "object"
    THEN /\ \A i \in 1..(Len(v.val) - 1) :
                ordinalCompare(v.val[i].key, v.val[i + 1].key) < 0
         /\ \A i \in 1..Len(v.val) : KeysAscendByCodePoint(v.val[i].value)
    ELSE TRUE

\* C9: the canonical form lists the keys of every record in ordinal
\* (code point) order, "B" before "a".
C9_OrdinalKeyOrder ==
    Canonicalized => KeysAscendByCodePoint(output.sorted)

(***************************************************************************)
(* Properties of isAttestation                                             *)
(***************************************************************************)
IsStringOrAbsent(v) == v = JsUndefined \/ v.kind = "string"

\* the Attestation type: four required strings, every optional field absent
\* or of its declared type
DeclaredAttestation(v) ==
    /\ v.kind = "object"
    /\ \A f \in {K_version, K_id, K_created, K_creator} : Get(v, f).kind = "string"
    /\ \A f \in {K_intent, K_tool, K_content_hash, K_expires, K_license, K_renews} :
            IsStringOrAbsent(Get(v, f))
    /\ \/ Get(v, K_upstream) = JsUndefined
       \/ /\ Get(v, K_upstream).kind = "array"
          /\ \A i \in 1..Len(Get(v, K_upstream).val) :
                Get(v, K_upstream).val[i].kind = "string"
    /\ Get(v, K_revocable) = JsUndefined \/ Get(v, K_revocable).kind = "boolean"
    /\ Get(v, K_extensions) = JsUndefined \/ Get(v, K_extensions).kind = "object"

\* C10: the validator accepts a value only if it is a non-array object with
\* the four required strings in which every optional field that is present
\* has its declared type; every other value is rejected.
C10_ValidatorAcceptsOnlyDeclared ==
    (output.made /\ output.op = "isAttestation")
    => (output.accepted <=> DeclaredAttestation(input.value))

(***************************************************************************)
(* Properties of metadata embedding and extraction                         *)
(***************************************************************************)
\* the last call was a successful embed / an extract
Embedded == output.made /\ output.op = "embed" /\ output.result.ok

Extracted == output.made /\ output.op = "extract"

\* the last call failed with this error code
Failed(code) == ~output.result.ok /\ output.result.val = code

\* the last extract returned this signed attestation
ExtractedIs(signedValue) ==
    /\ output.result.ok
    /\ output.result.val # JsNull
    /\ output.result.val.format = output.format
    /\ output.result.val.signed = signedValue

\* C11: for any parseable PNG or JPEG file and any valid signed attestation,
\* extracting from the result of embedding returns that signed attestation
C11_RoundTrip ==
    (Extracted /\ output.embeds >= 1) => ExtractedIs(output.signed)

\* a JPEG that already carried an attestation gets the attestation with
\* markup in its strings embedded, and it is extracted again
C11_Witness ==
    /\ Extracted
    /\ output.embeds = 2
    /\ output.format = "jpeg"
    /\ output.signed = FullSigned
    /\ ExtractedIs(FullSigned)

\* the iTXt chunks of a PNG whose keyword is the reserved one
ReservedChunks(buffer) ==
    LET chunks == parseChunks(buffer).val
    IN {i \in 1..Len(chunks) :
            /\ chunks[i].type = ITXT
            /\ StartsWith(chunks[i].data, latin1Encode(ARR_KEYWORD) \o <<0>>)}

\* the chunk embedPngAttestation builds for a signed attestation
ReservedChunkOf(signedValue) ==
    createChunk(ITXT, encodeItxt(ARR_KEYWORD, serializeSignedAttestation(signedValue)))

\* C12: after embedPngAttestation succeeds the output holds at most one
\* chunk with the reserved keyword, the newly built one; every chunk that
\* carried the keyword before is dropped
C12_AtMostOneReservedChunk ==
    (Embedded /\ output.format = "png") =>
        /\ Cardinality(ReservedChunks(output.result.val)) <= 1
        /\ \A i \in ReservedChunks(output.result.val) :
              parseChunks(output.result.val).val[i].raw = ReservedChunkOf(output.signed)

\* a segment without the fill bytes that may precede its marker
RECURSIVE WithoutFill(_)
WithoutFill(segment) ==
    IF Len(segment) >= 2 /\ segment[1] = 255 /\ segment[2] = 255
    THEN WithoutFill(Tail(segment))
    ELSE segment

\* the segments of a JPEG that hold an ARR XMP packet
ReservedSegments(buffer) ==
    LET segments == splitJpeg(buffer).val.segments
    IN {i \in 1..Len(segments) :
            LET segment == WithoutFill(segments[i])
                payload == SubSeq(segment, 5, Len(segment))
            IN /\ Len(segment) >= 4 + Len(XMP_IDENTIFIER)
               /\ segment[2] = 225
               /\ StartsWith(payload, XMP_IDENTIFIER)
               /\ includes(utf8Decode(SubSeq(payload, Len(XMP_IDENTIFIER) + 1,
                                             Len(payload))), ArrOpenTag)}

\* C13: embedding into a PNG or JPEG file that already carries an embedded
\* attestation leaves exactly one reserved chunk or segment, the one of the
\* most recent embed
C13_ReembedLeavesOne ==
    (Embedded /\ output.embeds >= 1) =>
        IF output.format = "png"
        THEN /\ Cardinality(ReservedChunks(output.result.val)) = 1
             /\ \A i \in ReservedChunks(output.result.val) :
                   parseChunks(output.result.val).val[i].raw
                       = ReservedChunkOf(output.signed)
        ELSE /\ Cardinality(ReservedSegments(output.result.val)) = 1
             /\ \A i \in ReservedSegments(output.result.val) :
                   splitJpeg(output.result.val).val.segments[i]
                       = createArrApp1Segment(output.signed).val

\* C14: embedPngAttestation on a PNG with a truncated chunk, a chunk that
\* runs past the end of the buffer, or no IEND chunk raises invalid_png and
\* returns no buffer
C14_FailsClosed ==
    (output.made /\ output.op = "embed" /\ output.before \in BrokenPngFiles) =>
        /\ Failed("invalid_png")
        /\ input.buffer = output.before

\* embedding into a PNG that ends without IEND has failed
C14_Witness ==
    /\ output.made
    /\ output.op = "embed"
    /\ output.before = PngOf(<<IhdrChunk, IdatChunk>>)
    /\ Failed("invalid_png")

\* the first reserved chunk of the PNG is compressed
FirstReservedChunkCompressed(buffer) ==
    /\ isPng(buffer)
    /\ parseChunks(buffer).ok
    /\ ReservedChunks(buffer) # {}
    /\ LET data == parseChunks(buffer).val[Least(ReservedChunks(buffer))].data
           flags == Len(ARR_KEYWORD) + 2
       IN /\ Len(data) >= flags + 1
          /\ (data[flags] # 0 \/ data[flags + 1] # 0)

\* C15: extraction from a PNG whose reserved iTXt chunk is compressed
\* reports unsupported_itxt_compression
C15_CompressedItxtReported ==
    (Extracted /\ FirstReservedChunkCompressed(output.before)) =>
        Failed("unsupported_itxt_compression")


\* the payload of the APP1 segment for a signed attestation: the XMP
\* identifier and the XML packet
PayloadOf(signedValue) == XMP_IDENTIFIER \o utf8Encode(buildArrXmpXml(signedValue))

EmbeddedJpeg == output.made /\ output.op = "embedJpeg"

\* C16: when the XMP identifier, the XML packet and the 2 length bytes exceed
\* 65535 bytes embedJpegAttestation fails with xmp_too_large and returns
\* nothing; otherwise the new APP1 segment holds payload length + 2 in its
\* two length bytes, big-endian, and the whole payload
C16_NeverTruncates ==
    EmbeddedJpeg =>
        LET split == splitJpeg(output.before)
            payload == PayloadOf(SizedSigned(output.size))
        IN IF ~split.ok THEN ~output.result.ok
           ELSE IF Len(payload) + 2 > 65535 THEN Failed("xmp_too_large")
           ELSE /\ output.result.ok
                /\ LET out == output.result.val
                       end == Len(out) - Len(split.val.tail)
                       start == end - Len(payload) - 4
                   IN /\ start >= Len(split.val.soi)
                      /\ out[start + 1] = 255
                      /\ out[start + 2] = 225
                      /\ out[start + 3] * 256 + out[start + 4] = Len(payload) + 2
                      /\ SubSeq(out, start + 5, end) = payload
                      /\ SubSeq(out, end + 1, Len(out)) = split.val.tail

\* a payload one byte too long for the length field was refused
C16_Witness ==
    /\ EmbeddedJpeg
    /\ splitJpeg(output.before).ok
    /\ Len(PayloadOf(SizedSigned(output.size))) + 2 = 65536
    /\ Failed("xmp_too_large")


(***************************************************************************)
(* Properties of stored attestations                                       *)
(***************************************************************************)
\* the last call read a persisted attestation
ReadCall == output.made /\ output.op \in {"readSidecar", "loadSignedAttestation"}

\* the text of the sidecar the last call parsed, <<>> when it parsed none
SidecarTextRead ==
    LET target == IF EndsWith(output.path, ArrExtension) THEN output.path
                  ELSE output.path \o ArrExtension
        own == output.before[output.path]
    IN IF output.op = "readSidecar" \/ EndsWith(output.path, ArrExtension)
       THEN IF target \in DOMAIN output.before THEN utf8Decode(output.before[target])
            ELSE <<>>
       ELSE IF /\ output.path \in DOMAIN output.before
               /\ own \in {PlainPng, PlainJpeg} \cup UnknownFiles
               /\ target \in DOMAIN output.before
       THEN utf8Decode(output.before[target])
       ELSE <<>>

\* image files whose reserved chunk or segment holds text that is not JSON,
\* and JSON that is no signed attestation
ImagesWithNotJson ==
    {PngOf(<<IhdrChunk, ItxtChunk(ARR_KEYWORD, 0, NotJson), IendChunk>>),
     JpegOf(<<XmpSegment(ArrPacket(ArrOpenTag \o NotJson \o ArrCloseTag))>>, ScanTail)}

ImagesWithNotSignedJson ==
    {PngOf(<<IhdrChunk, ItxtChunk(ARR_KEYWORD, 0, NotSignedJson), IendChunk>>),
     JpegOf(<<XmpSegment(ArrPacket(ArrOpenTag \o escapeXml(NotSignedJson) \o ArrCloseTag)),
              App0Segment>>, ScanTail)}

\* C17: reading a sidecar, a PNG or a JPEG never returns a value that fails
\* isSignedAttestation; persisted text that is not JSON, or JSON that is no
\* signed attestation, is rejected
C17_ReadsRevalidate ==
    ReadCall =>
        /\ output.result.ok => isSignedAttestation(output.result.val.signed)
        /\ SidecarTextRead = NotJson => Failed("malformed_json")
        /\ SidecarTextRead = NotSignedJson => Failed("malformed")
        /\ (/\ output.op = "loadSignedAttestation"
            /\ ~EndsWith(output.path, ArrExtension)
            /\ output.before[output.path] \in ImagesWithNotJson)
              => Failed("malformed_json")
        /\ (/\ output.op = "loadSignedAttestation"
            /\ ~EndsWith(output.path, ArrExtension)
            /\ output.before[output.path] \in ImagesWithNotSignedJson)
              => Failed("malformed")

\* a PNG whose reserved chunk holds JSON that is no signed attestation was
\* loaded, and was rejected
C17_Witness ==
    /\ ReadCall
    /\ output.op = "loadSignedAttestation"
    /\ output.path = PngPath
    /\ output.before[PngPath]
          = PngOf(<<IhdrChunk, ItxtChunk(ARR_KEYWORD, 0, NotSignedJson), IendChunk>>)
    /\ Failed("malformed")


\* the path the claim gives for the sidecar of a path
ExpectedSidecarPath(path) ==
    IF /\ Len(path) >= 4
       /\ SubSeq(path, Len(path) - 3, Len(path)) = <<".", "a", "r", "r">>
    THEN path
    ELSE path \o <<".", "a", "r", "r">>

\* the last writing call was writeSidecar(path, signed) without outPath
WroteSidecarOf(path) ==
    /\ input.last.made
    /\ input.last.op = "writeSidecar"
    /\ input.last.path = path
    /\ input.last.paths.sidecar = NoPath

\* C18: sidecarPathFor(p) is p + ".arr" unless p ends in ".arr", then it is
\* p, so that applying it twice is applying it once; reading the sidecar of
\* p after writing a signed attestation as the sidecar of p returns the same
\* path and a signed attestation equal to the written one
C18_SidecarRoundTrip ==
    /\ (output.made /\ output.op \in {"writeSidecar", "readSidecar"}) =>
          /\ sidecarPathFor(output.path) = ExpectedSidecarPath(output.path)
          /\ sidecarPathFor(sidecarPathFor(output.path)) = sidecarPathFor(output.path)
    /\ (output.made /\ output.op = "writeSidecar" /\ output.paths.sidecar = NoPath) =>
          /\ output.result.ok
          /\ output.result.val = ExpectedSidecarPath(output.path)
          /\ output.result.val \in DOMAIN files
    /\ (output.made /\ output.op = "readSidecar" /\ WroteSidecarOf(output.path)) =>
          /\ output.result.ok
          /\ output.result.val.path = ExpectedSidecarPath(output.path)
          /\ output.result.val.signed = StoreSigned[input.last.sample]

\* the sidecar of a path that ends in ".arr" was written, then read
C18_Witness ==
    /\ output.made
    /\ output.op = "readSidecar"
    /\ output.path = ArrPath
    /\ WroteSidecarOf(ArrPath)
    /\ output.result.ok
    /\ output.result.val.path = ArrPath
    /\ output.result.val.signed = FullSigned


\* the last call was attestSigned on a file that exists
Attested ==
    /\ output.made
    /\ output.op = "attestSigned"
    /\ output.path \in DOMAIN output.before

\* the magic bytes of the attested file identify a PNG or a JPEG
MagicIdentifies == detectFileFormat(output.before[output.path]) # "unknown"

\* the attestation is in the metadata of the file the call put out
EmbeddedInMetadata ==
    /\ output.result.ok
    /\ output.result.val.mode = "metadata"
    /\ output.result.val.outputPath \in DOMAIN files
    /\ LET found == extractAttestationFromMetadata(files[output.result.val.outputPath])
       IN /\ found.ok
          /\ found.val # JsNull
          /\ found.val.signed = StoreSigned[output.sample]

\* the attestation is in the sidecar the call wrote
SidecarWritten ==
    /\ output.result.ok
    /\ output.result.val.mode = "sidecar"
    /\ output.result.val.outputPath \in DOMAIN files
    /\ files[output.result.val.outputPath]
          = utf8Encode(serializeSignedAttestation(StoreSigned[output.sample]))

\* embedding failed, nothing was written and no sidecar stands in
EmbeddingRefused ==
    /\ ~output.result.ok
    /\ output.result.val \in {"invalid_png", "invalid_jpeg", "xmp_too_large"}
    /\ files = output.before

\* C19 as stated: in sidecar mode a sidecar is always written; in auto mode
\* the attestation is embedded in metadata exactly when the magic bytes
\* identify a PNG or JPEG, otherwise a sidecar is written; in metadata mode a
\* file that is neither fails with unsupported_format
C19_Dispatch_AsStated ==
    Attested =>
        /\ output.mode = "sidecar" => SidecarWritten
        /\ output.mode = "auto" =>
              /\ EmbeddedInMetadata <=> MagicIdentifies
              /\ ~MagicIdentifies => SidecarWritten
        /\ (output.mode = "metadata" /\ ~MagicIdentifies) => Failed("unsupported_format")

\* C19: in sidecar mode a sidecar is always written; in auto mode a file
\* whose magic bytes identify a PNG or JPEG takes the metadata path (the
\* attestation is embedded, or embedding fails, nothing is written and no
\* sidecar stands in) and any other file gets a sidecar; in metadata mode a
\* file that is neither fails with unsupported_format
C19_Dispatch ==
    Attested =>
        /\ output.mode = "sidecar" => SidecarWritten
        /\ (output.mode = "auto" /\ MagicIdentifies) =>
              (EmbeddedInMetadata \/ EmbeddingRefused)
        /\ (output.mode = "auto" /\ ~MagicIdentifies) => SidecarWritten
        /\ (output.mode = "metadata" /\ ~MagicIdentifies) => Failed("unsupported_format")

\* a file with the PNG signature and no IEND chunk was attested in auto
\* mode: the call failed and wrote nothing
C19_Witness ==
    /\ Attested
    /\ output.mode = "auto"
    /\ output.before[output.path] = PngOf(<<IhdrChunk, IdatChunk>>)
    /\ Failed("invalid_png")
    /\ files = output.before


\* the last call attested or published a file that exists
AttestedOrPublished ==
    /\ output.made
    /\ output.op \in {"attestSigned", "publishSignedAttestation"}
    /\ output.path \in DOMAIN output.before

\* C20: when attesting or publishing fails after the input file was read no
\* file is written; a call that succeeds writes one file, whole
C20_NoPartialOutput ==
    AttestedOrPublished =>
        IF ~output.result.ok THEN files = output.before
        ELSE /\ DOMAIN files = DOMAIN output.before \cup {output.result.val.outputPath}
             /\ \A path \in DOMAIN output.before \ {output.result.val.outputPath} :
                   files[path] = output.before[path]
             /\ (EmbeddedInMetadata \/ SidecarWritten)

\* publishing an attestation too large for a JPEG segment failed and wrote
\* nothing
C20_Witness ==
    /\ AttestedOrPublished
    /\ output.op = "publishSignedAttestation"
    /\ output.mode = "metadata"
    /\ Failed("xmp_too_large")
    /\ files = output.before

(***************************************************************************)
(* Properties of the MCP server                                            *)
(***************************************************************************)
\* the attestation id a returned revocation names
RevokedId(revocation) ==
    Get(Get(revocation, K_revocation), K_attestation_id).val

\* the i-th and the j-th response are verifications of one signed
\* attestation with one key, and a revocation record for its id was signed
\* in between
VerifiedAroundRevocation(i, j) ==
    /\ i < j
    /\ held[i].op = "handleVerify"
    /\ held[j].op = "handleVerify"
    /\ held[i].doc = held[j].doc
    /\ held[i].key = held[j].key
    /\ \E r \in (i + 1)..(j - 1) :
          /\ held[r].op = "handleRevoke"
          /\ RevokedId(held[r].doc) = IdOf(held[i].doc)

\* C21: verification does not consult revocation. When a signed attestation
\* is verified, then a revocation record for its id is signed (among any
\* other requests), and it is verified again with the same key, the second
\* result equals the first.
C21_RevocationNotConsulted ==
    \A i \in DOMAIN held, j \in DOMAIN held :
        VerifiedAroundRevocation(i, j) => held[j].result = held[i].result

\* a signed attestation verified as valid before and after its revocation
C21_Witness ==
    \E i \in DOMAIN held, j \in DOMAIN held :
        /\ VerifiedAroundRevocation(i, j)
        /\ held[i].result = [valid |-> TRUE, expired |-> FALSE]
        /\ held[j].result = [valid |-> TRUE, expired |-> FALSE]

\* the result a verify request gets for a signed attestation
VerdictOn(signedAttestation, publicKeyPem) ==
    handleVerify(signedAttestation, publicKeyPem, VerifyNow).val.value

\* the i-th response is a renewal of the attestation of the x-th response
RenewalOf(i, x) ==
    /\ x \in HeldAttestations
    /\ x < i
    /\ held[i].op = "handleRenew"
    /\ held[i].renews = IdOf(held[x].doc)

\* C22: renewal never edits in place. Renewing attestation X gives a new
\* signed attestation whose renews field is X's id and whose own id differs
\* from X's id, and X's signed attestation, unchanged in the caller's hands,
\* still verifies as valid.
C22_RenewalIsNewDocument ==
    \A i \in DOMAIN held, x \in DOMAIN held :
        RenewalOf(i, x) =>
            /\ Get(Get(held[i].doc, K_attestation), K_renews) = JsStr(IdOf(held[x].doc))
            /\ IdOf(held[i].doc) # IdOf(held[x].doc)
            /\ VerdictOn(held[x].doc, JsUndefined) = [valid |-> TRUE, expired |-> FALSE]

\* C26: an arr.attestation.verified event denotes a verification pass. The
\* event a verify request emits has that type only when the verification
\* result of the request has valid: true.
C26_VerifiedEventMeansValid ==
    (/\ output.made
     /\ output.op = "handleVerify"
     /\ events # <<>>
     /\ events[Len(events)].type = "arr.attestation.verified")
        => output.result.val.value.valid

\* the page of the last arr.events.list call holds exactly the events
\* emitted after the event since_id names, oldest first, cut at limit
PageFollowsSince ==
    (output.made /\ output.op = "listEvents" /\ output.found) =>
        LET last == Serial(consumer.received[Len(consumer.received) - Len(output.result)])
            rest == output.emitted - last
        IN /\ Len(output.result) = (IF rest < output.limit THEN rest ELSE output.limit)
           /\ \A k \in DOMAIN output.result : Serial(output.result[k]) = last + k

\* as long as every since_id was found, the consumer has every event from
\* its first one on exactly once and in emission order
ReceivedInOrder ==
    ~consumer.gap =>
        \A k \in 1..(Len(consumer.received) - 1) :
            Serial(consumer.received[k + 1]) = Serial(consumer.received[k]) + 1

\* a page shorter than the limit ends with the newest event
ShortPageCatchesUp ==
    (/\ output.made /\ output.op = "listEvents" /\ output.found
     /\ Len(output.result) < output.limit) =>
        Serial(consumer.received[Len(consumer.received)]) = output.emitted

\* C27: event paging. When since_id names an event still in the buffer,
\* listEvents returns exactly the events emitted after it, oldest first, at
\* most limit of them; a consumer that always passes the id of the last
\* event it received gets every buffered event once and in emission order.
C27_EventPaging ==
    /\ PageFollowsSince
    /\ ReceivedInOrder
    /\ ShortPageCatchesUp

\* the consumer has paged through a full buffer that dropped its oldest
\* events meanwhile, and its last page reached the newest event
C27_Witness ==
    /\ output.made /\ output.op = "listEvents" /\ output.found
    /\ Len(events) = MAX_EVENT_BUFFER
    /\ Serial(events[1]) > 1
    /\ output.result # <<>>
    /\ Len(output.result) < output.limit
    /\ ~consumer.gap

\* a call that has returned has no listener and no timer left
FinishedCallsLeaveNothing ==
    \A w \in DOMAIN watches :
        watches[w].status = "returned" => w \notin listeners /\ TimersOf(w) = {}

\* a call that waits has its listener and exactly one timer
WaitingCallsAreArmed ==
    \A w \in DOMAIN watches :
        watches[w].status = "waiting" =>
            /\ w \in listeners
            /\ Cardinality(TimersOf(w)) = 1
            /\ \A i \in TimersOf(w) : timers[i].left + watches[w].waited >= watches[w].timeout

\* how a call returned: at once with the events listEvents had, on the
\* next event with what listEvents has then, or empty after timeout_ms
\* (30000 when omitted) without an event
ReturnedAsSpecified ==
    \A w \in DOMAIN watches :
        /\ watches[w].by = "existing" =>
               watches[w].events # <<>> /\ watches[w].waited = 0
        /\ watches[w].by = "event" => watches[w].events # <<>>
        /\ watches[w].by = "timeout" =>
               /\ watches[w].events = <<>>
               /\ watches[w].waited >= watches[w].timeout
               /\ watches[w].timeout \in {250, 30000}
        /\ watches[w].by = "none" <=> watches[w].status = "waiting"

\* C28: every arr.events.watch call completes. It returns at once when
\* listEvents is non-empty, otherwise on the next emitted event or, when
\* none arrives within timeout_ms (default 30000), with an empty list; either
\* way its listener and its timer are removed, and every call that was made
\* returns in the end.
C28_WatchCompletes ==
    /\ [](FinishedCallsLeaveNothing /\ WaitingCallsAreArmed /\ ReturnedAsSpecified)
    /\ \A w \in 1..MaxWatches :
          (w \in DOMAIN watches) ~> (w \in DOMAIN watches /\ watches[w].status = "returned")

\* one call has returned on an event and another on its default timeout,
\* and nothing is left registered
C28_Witness ==
    /\ \E w \in DOMAIN watches : watches[w].by = "event"
    /\ \E w \in DOMAIN watches :
          watches[w].by = "timeout" /\ watches[w].timeout = DefaultWatchTimeout
    /\ listeners = {}
    /\ timers = <<>>

\* the states reachable from `from` by exactly one listed transition
Targets(from) == {WIDGET_TRANSITIONS[from][i] : i \in DOMAIN WIDGET_TRANSITIONS[from]}

\* idle is reached from `from` by one or two listed transitions
ResetsWithinTwo(from) ==
    \/ isValidTransition(from, "idle")
    \/ \E via \in Targets(from) : isValidTransition(via, "idle")

\* C23: the widget lifecycle transition table is closed and resettable.
\* Every declared state has an entry, every transition target is a declared
\* state, idle is reachable from every state by at most two listed
\* transitions, and from error both idle and drafting are reachable in one;
\* a client that follows the table is always in such a state.
C23_ClosedAndResettable ==
    /\ Includes(WIDGET_STATES, widget.state)
    /\ ResetsWithinTwo(widget.state)
    /\ \A i \in DOMAIN WIDGET_STATES :
          /\ WIDGET_STATES[i] \in DOMAIN WIDGET_TRANSITIONS
          /\ \A to \in Targets(WIDGET_STATES[i]) : Includes(WIDGET_STATES, to)
          /\ ResetsWithinTwo(WIDGET_STATES[i])
    /\ isValidTransition("error", "idle")
    /\ isValidTransition("error", "drafting")

\* the client has followed the table to publishing, the one state that
\* needs two transitions to reach idle
C23_Witness ==
    /\ output.made
    /\ output.op = "transition"
    /\ widget.state = "publishing"
    /\ ~isValidTransition(widget.state, "idle")

\* C29: the widget's lifecycle state only moves along edges of
\* WIDGET_TRANSITIONS. For every server event the widget receives, the change
\* from its state s to the mapped state t is a listed transition, or t = s.
C29_MovesAlongTransitions ==
    (output.made /\ output.op = "onmessage") =>
        \/ output.to = output.from
        \/ isValidTransition(output.from, output.to)

\* the timers of schedule that are pending for a path
TimersFor(filePath) ==
    {i \in DOMAIN timers : timers[i].callback = [kind |-> "process", path |-> filePath]}

\* the processing runs started for a path
RunsOf(filePath) == Cardinality({i \in DOMAIN runs : runs[i].path = filePath})

\* at most one timer is pending per path, and it is the one the map holds
OneTimerPerPath ==
    \A filePath \in WatchedPaths :
        /\ Cardinality(TimersFor(filePath)) <= 1
        /\ filePath \in DOMAIN pending <=> TimersFor(filePath) # {}
        /\ \A i \in TimersFor(filePath) : timers[i].id = pending[filePath]

\* the pending timer of a path is due 400 ms after the last event for it
TimerRestartsOnEvent ==
    \A filePath \in WatchedPaths :
        \A i \in TimersFor(filePath) :
            timers[i].left + fsevents[filePath].quiet = DebounceMs

\* processing has only started after 400 ms without an event for the path
RunsAfterQuiet == \A i \in DOMAIN runs : runs[i].quiet >= DebounceMs

\* every finished burst of a path has had one run, and the burst that is
\* still pending none
OneRunPerBurst ==
    \A filePath \in DOMAIN fsevents :
        RunsOf(filePath) =
            fsevents[filePath].bursts - (IF filePath \in DOMAIN pending THEN 1 ELSE 0)

\* C30: watch-folder debounce. At most one timer is pending per file path,
\* each event for a path cancels its pending timer and starts a new one of
\* 400 ms, processing of a path starts only after 400 ms without a further
\* event for it, and a burst of events for one path leads to exactly one
\* processing run.
C30_Debounce ==
    /\ [](OneTimerPerPath /\ TimerRestartsOnEvent /\ RunsAfterQuiet /\ OneRunPerBurst)
    /\ \A filePath \in WatchedPaths :
          (filePath \in DOMAIN pending) ~> (filePath \notin DOMAIN pending)

\* a burst of events for the image, the later ones while its timer was
\* running, has been processed once, and the file was attested
C30_Witness ==
    /\ PngPath \in DOMAIN fsevents
    /\ fsevents[PngPath].events >= 2
    /\ fsevents[PngPath].bursts = 1
    /\ RunsOf(PngPath) = 1
    /\ PngPath \notin DOMAIN pending
    /\ defaultMetadataOutputPath(PngPath) \in DOMAIN files

\* the chunks of a parsed PNG before its IEND that do not carry the
\* reserved keyword, byte for byte and in order
RECURSIVE KeptChunks(_, _, _)
KeptChunks(chunks, reserved, i) ==
    IF i > Len(chunks) \/ chunks[i].type = IEND THEN <<>>
    ELSE (IF i \in reserved THEN <<>> ELSE chunks[i].raw)
         \o KeptChunks(chunks, reserved, i + 1)

\* the IEND chunk of a parsed PNG
IendOf(chunks) == chunks[Least({i \in 1..Len(chunks) : chunks[i].type = IEND})].raw

\* a segment carries the ARR XMP packet, whatever fill bytes precede its
\* marker
CarriesArrXmp(segment) == isArrXmpSegment(WithoutFill(segment))

\* the segments of a split JPEG that do not carry the ARR XMP packet
RECURSIVE KeptSegments(_)
KeptSegments(segments) ==
    IF segments = <<>> THEN <<>>
    ELSE (IF CarriesArrXmp(Head(segments)) THEN <<>> ELSE Head(segments))
         \o KeptSegments(Tail(segments))

\* the bytes of a JPEG from its SOS or EOI marker to its end: what follows
\* SOI and the segments
ScanOf(buffer, segments) ==
    SubSeq(buffer, 2 + Len(concat(segments)) + 1, Len(buffer))

\* C24: embedding changes only the reserved entry. The PNG output is the
\* signature, every input chunk up to IEND except the reserved-keyword
\* chunks, byte for byte and in order, the new chunk, and IEND; the JPEG
\* output is SOI, every non-matching segment byte for byte and in order, the
\* new APP1 segment, and the original bytes from the SOS or EOI marker on.
C24_OnlyReservedEntryChanges ==
    Embedded =>
        IF output.format = "png"
        THEN output.result.val =
                 PNG_SIGNATURE
                 \o KeptChunks(parseChunks(output.before).val,
                               ReservedChunks(output.before), 1)
                 \o ReservedChunkOf(output.signed)
                 \o IendOf(parseChunks(output.before).val)
        ELSE output.result.val =
                 <<255, 216>>
                 \o KeptSegments(splitJpeg(output.before).val.segments)
                 \o createArrApp1Segment(output.signed).val
                 \o ScanOf(output.before, splitJpeg(output.before).val.segments)

\* the JPEG segments that carry the ARR XMP packet
ArrSegments(buffer) ==
    {i \in DOMAIN splitJpeg(buffer).val.segments :
        CarriesArrXmp(splitJpeg(buffer).val.segments[i])}

\* what the XMP packet of a segment holds
AttestationIn(segment) ==
    extractArrAttestationFromXml(XmlOfPayload(parseApp1Payload(WithoutFill(segment))))

\* C25: a JPEG APP1 segment that carries the ARR XMP packet is recognised
\* whatever 0xFF fill bytes precede its marker type: extraction returns the
\* attestation of the first such segment, and embedding removes every such
\* segment when it adds the new one.
C25_FillBytesIgnored ==
    /\ (/\ Extracted
        /\ output.format = "jpeg"
        /\ splitJpeg(output.before).ok
        /\ ArrSegments(output.before) # {}) =>
           LET Same(first) ==
                   (first.ok /\ first.val # JsNull) => ExtractedIs(first.val)
           IN Same(AttestationIn(
                  splitJpeg(output.before).val.segments[Least(ArrSegments(output.before))]))
    /\ (Embedded /\ output.format = "jpeg") =>
           /\ Cardinality(ArrSegments(output.result.val)) = 1
           /\ \A i \in ArrSegments(output.result.val) :
                 splitJpeg(output.result.val).val.segments[i]
                     = createArrApp1Segment(output.signed).val

====
